---- MODULE Spec2Model ----
(***************************************************************************)
(* Model of the interactive agent CLI of FastAPI-LLM-Agent:                *)
(*   - CommandExecutor          (src/cli/command_executor.py)              *)
(*   - LLMClientWithTools       (src/cli/llm_client_wrapper.py)            *)
(*   - LLMClient._stream_chat   (src/core/llm_client.py)                   *)
(*   - InteractiveCLI.run loop  (src/cli/interactive_terminal.py)          *)
(*                                                                         *)
(* The program is a single asyncio thread.  A step of the model is the     *)
(* code that runs between two suspension points (an awaited prompt, an     *)
(* awaited network line, a blocking terminal question).  Text is modelled  *)
(* as a sequence of tokens; a fenced json block is one token that carries  *)
(* the value its content parses to.                                        *)
(***************************************************************************)
EXTENDS Integers, Sequences, FiniteSets, TLC

(***************************************************************************)
(* Bounds of the model.                                                    *)
(***************************************************************************)
MaxTurns == 2        \* user turns (plain or !multiline) per run of the loop
MaxLines == 2        \* content lines the backend sends per run of the loop
MaxCalls == 2        \* executions dispatched when the executor is driven alone
MaxCommands == 2     \* state-changing special commands and outside
                     \* cancel_response calls per run of the loop
MaxTokens == 3       \* tokens of a text when the decoder is driven alone

(***************************************************************************)
(* Values.                                                                 *)
(***************************************************************************)
ABSENT == "<absent>"     \* a path that does not exist
ISDIR == "<dir>"         \* a path that exists and is a directory
NONSTR == "<int>"        \* a JSON value that is not a string (a number)

Paths == {"f1", "f2", "d1"}

ToolNames == {"execute_shell_command", "read_file", "write_file", "other_tool"}

\* The JSON values an "arguments" key can hold: an object (dict) over some
\* of the keys the executor looks at ("command", "filepath", "content"), or
\* a value that is no object.
Dict(m) == [type |-> "dict", map |-> m]
NonDict(t) == [type |-> t, map |-> <<>>]
NotObjects == {NonDict("str"), NonDict("list")}
ShellArguments ==
    {Dict([k \in {"command"} |-> v]) : v \in {"ls", NONSTR}}
ReadArguments ==
    {Dict([k \in {"filepath"} |-> v]) : v \in Paths \cup {NONSTR}}
WriteArguments ==
    {Dict([k \in {"filepath", "content"} |->
             IF k = "filepath" THEN p ELSE c]) :
       p \in Paths, c \in {"c2", NONSTR}}

\* The arguments values of a call of tool_name: those that differ in a key
\* the tool looks at.
ArgumentsFor(tool_name) ==
    NotObjects \cup {Dict(<<>>)} \cup
    CASE tool_name = "execute_shell_command" -> ShellArguments
      [] tool_name = "read_file" -> ReadArguments
      [] tool_name = "write_file" -> ReadArguments \cup WriteArguments
      [] OTHER -> {}

\* dict.get(key, default)
Get(arguments, key, default) ==
    IF key \in DOMAIN arguments.map THEN arguments.map[key] ELSE default

\* dict[key] = value on a copy
Put(arguments, key, value) ==
    Dict([k \in DOMAIN arguments.map \cup {key} |->
            IF k = key THEN value ELSE arguments.map[k]])

(***************************************************************************)
(* Results of a call: a returned (success, result) pair or a raised        *)
(* exception.  result is the result text.                             *)
(***************************************************************************)
Return(success, result) ==
    [raised |-> FALSE, success |-> success, result |-> result]
Raise(e) ==
    [raised |-> TRUE, success |-> FALSE, result |-> e]

\* The state the executor works on and what one call did to it:
\*   fs       the file system, path -> content | ABSENT | ISDIR
\*   log      CommandExecutor.execution_history
\*   acted    the tool actions the call performed (shell run, file read,
\*            file write), in order
\*   n        how many executions were dispatched to a tool handler
World(fs, log, acted, n) == [fs |-> fs, log |-> log, acted |-> acted, n |-> n]
Outcome(out, w) == [out |-> out, w |-> w]


(***************************************************************************)
(* What the terminal and the operating system answer during one call of    *)
(* execute_with_approval:                                                  *)
(*   choice   the answer to Prompt.ask("Action"), or "^C" for a keyboard   *)
(*            interrupt raised at that prompt                              *)
(*   reply    the text typed at the modify prompt ("" keeps the default),  *)
(*            or "^C" for a keyboard interrupt raised at that prompt       *)
(*   confirm  the answer to Confirm.ask("Overwrite?")                      *)
(*   rc       the exit code of the child process, or "spawn_error" when    *)
(*            the process cannot be started                                *)
(*   stdout, stderr   what the child process wrote                         *)
(***************************************************************************)
Choices == {"execute", "modify", "skip", "e", "m", "s"}
Replies == {"", "f2"}
ExitCodes == {"0", "1"}
Stdouts == {"", "out"}
Stderrs == {"", "err"}
Answers ==
    [choice : Choices \cup {"^C"}, reply : Replies \cup {"^C"},
     confirm : BOOLEAN, rc : ExitCodes \cup {"spawn_error"},
     stdout : Stdouts, stderr : Stderrs]

\* The answers that differ in a question the call can ask: the modify prompt
\* comes only after choosing modify and only for the three known tools, the
\* overwrite question only in write_file, the exit code and the output only
\* from a child process of execute_shell_command.
KnownTools == {"execute_shell_command", "read_file", "write_file"}

ChoiceAnswers(tool_name) ==
    {<<c, "">> : c \in Choices \cup {"^C"}} \cup
    (IF tool_name \in KnownTools
     THEN {<<c, r>> : c \in {"m", "modify"}, r \in {"f2", "^C"}}
     ELSE {})

ConfirmAnswers(tool_name) ==
    IF tool_name = "write_file" THEN BOOLEAN ELSE {FALSE}

\* a child process that ran wrote to one of its two streams
ProcessAnswers(tool_name) ==
    IF tool_name = "execute_shell_command"
    THEN {<<rc, "out", "">> : rc \in ExitCodes}
         \cup {<<rc, "", "err">> : rc \in ExitCodes}
         \cup {<<"spawn_error", "", "">>}
    ELSE {<<"0", "", "">>}

AnswersFor(tool_name) ==
    {[choice |-> cr[1], reply |-> cr[2], confirm |-> k, rc |-> p[1],
      stdout |-> p[2], stderr |-> p[3]] :
        cr \in ChoiceAnswers(tool_name), k \in ConfirmAnswers(tool_name),
        p \in ProcessAnswers(tool_name)}

\* _execute_shell_command line 141: the result text of a process that ran
ExitText(rc, stdout, stderr) ==
    "Exit code: " \o rc \o "\nStdout:\n" \o stdout \o "\nStderr:\n" \o stderr

\* Path.exists() and the content behind a path; Path("") is the current
\* directory.
FsAt(fs, filepath) == IF filepath = "" THEN ISDIR ELSE fs[filepath]
Exists(fs, filepath) == FsAt(fs, filepath) # ABSENT

(***************************************************************************)
(* CommandExecutor._format_tool_display: the preview text is not modelled, *)
(* only whether building it raises.                                        *)
(***************************************************************************)
format_tool_display(tool_name, arguments) ==
    IF tool_name \in KnownTools
    THEN IF arguments.type # "dict"
         THEN Raise("AttributeError")            \* arguments.get(...)
         ELSE IF tool_name = "write_file"
                 /\ Get(arguments, "content", "") = NONSTR
              THEN Raise("TypeError")            \* len(content)
              ELSE Return(TRUE, "panel")
    ELSE Return(TRUE, "panel")

(***************************************************************************)
(* CommandExecutor._modify_arguments: returns the new arguments in         *)
(* .result (never None), or raises.                                        *)
(***************************************************************************)
PrimaryKey(tool_name) ==
    IF tool_name = "execute_shell_command" THEN "command" ELSE "filepath"

\* A faulty _modify_arguments that builds the new arguments from the
\* primary argument alone.
modify_arguments_primary_only(tool_name, arguments, reply) ==
    IF arguments.type # "dict" \/ reply = "^C"
    THEN Raise("AttributeError")
    ELSE LET key == PrimaryKey(tool_name)
             default == Get(arguments, key, "")
         IN  Return(TRUE, Dict([k \in {key} |->
                                  IF reply # "" THEN reply ELSE default]))

modify_arguments(tool_name, arguments, reply) ==
    IF arguments.type = "str"
    THEN Raise("AttributeError")                 \* arguments.copy()
    ELSE IF tool_name \in KnownTools
         THEN IF arguments.type # "dict"
              THEN Raise("AttributeError")       \* arguments.get(...)
              ELSE IF reply = "^C"
              THEN Raise("KeyboardInterrupt")    \* Prompt.ask(...)
              ELSE LET key == PrimaryKey(tool_name)
                       default == Get(arguments, key, "")
                       new_value == IF reply # "" THEN reply ELSE default
                   IN  IF new_value # ""
                       THEN Return(TRUE, Put(arguments, key, new_value))
                       ELSE Return(TRUE, arguments)
         ELSE Return(TRUE, arguments)

(***************************************************************************)
(* CommandExecutor._execute_shell_command                                  *)
(***************************************************************************)
\* A faulty _execute_shell_command that reports every process that ran as
\* a success.
execute_shell_command_ignores_code(arguments, ans, w) ==
    IF arguments.type # "dict"
    THEN Outcome(Raise("AttributeError"), w)
    ELSE LET command == Get(arguments, "command", "")
         IN  IF command = NONSTR \/ ans.rc = "spawn_error"
             THEN Outcome(Return(FALSE, "spawn error"), w)
             ELSE Outcome(
                    Return(TRUE, ExitText(ans.rc, ans.stdout, ans.stderr)),
                    World(w.fs,
                          Append(w.log, [type |-> "shell_command",
                                         command |-> command,
                                         exit_code |-> ans.rc,
                                         stdout |-> ans.stdout,
                                         stderr |-> ans.stderr]),
                          Append(w.acted, [kind |-> "shell",
                                           target |-> command]),
                          w.n))

execute_shell_command(arguments, ans, w) ==
    IF arguments.type # "dict"
    THEN Outcome(Raise("AttributeError"), w)
    ELSE LET command == Get(arguments, "command", "")
         IN  IF command = NONSTR \/ ans.rc = "spawn_error"
             THEN Outcome(Return(FALSE, "spawn error"), w)
             ELSE Outcome(
                    Return(ans.rc = "0",
                           ExitText(ans.rc, ans.stdout, ans.stderr)),
                    World(w.fs,
                          Append(w.log, [type |-> "shell_command",
                                         command |-> command,
                                         exit_code |-> ans.rc,
                                         stdout |-> ans.stdout,
                                         stderr |-> ans.stderr]),
                          Append(w.acted, [kind |-> "shell",
                                           target |-> command]),
                          w.n))

(***************************************************************************)
(* CommandExecutor._read_file                                              *)
(***************************************************************************)
read_file(arguments, ans, w) ==
    IF arguments.type # "dict"
    THEN Outcome(Raise("AttributeError"), w)
    ELSE LET filepath == Get(arguments, "filepath", "")
         IN  IF filepath = NONSTR
             THEN Outcome(Raise("TypeError"), w)            \* Path(filepath)
             ELSE IF ~Exists(w.fs, filepath)
             THEN Outcome(Return(FALSE, "File not found: " \o filepath), w)
             ELSE IF FsAt(w.fs, filepath) = ISDIR
             THEN Outcome(Return(FALSE, "IsADirectoryError"), w)
             ELSE Outcome(
                    Return(TRUE, FsAt(w.fs, filepath)),
                    World(w.fs, w.log,
                          Append(w.acted, [kind |-> "read",
                                           target |-> filepath]),
                          w.n))

(***************************************************************************)
(* CommandExecutor._write_file                                             *)
(***************************************************************************)
\* A faulty _write_file that asks the overwrite question and writes whatever
\* the answer is.
write_file_ignores_answer(arguments, ans, w) ==
    IF arguments.type # "dict"
    THEN Outcome(Raise("AttributeError"), w)
    ELSE LET filepath == Get(arguments, "filepath", "")
             content == Get(arguments, "content", "")
             exists == Exists(w.fs, filepath)
         IN  IF filepath = NONSTR
             THEN Outcome(Raise("TypeError"), w)
             ELSE IF content = NONSTR
             THEN Outcome(Return(FALSE, "TypeError"), w)
             ELSE IF FsAt(w.fs, filepath) = ISDIR
             THEN Outcome(Return(FALSE, "IsADirectoryError"), w)
             ELSE Outcome(
                    Return(TRUE, (IF exists THEN "Updated " ELSE "Created ")
                                 \o filepath),
                    World([w.fs EXCEPT ![filepath] = content], w.log,
                          Append(w.acted, [kind |-> "write",
                                           target |-> filepath]),
                          w.n))

\* A faulty _write_file that computes exists after the write, so that every
\* write is reported as an update.
write_file_exists_after(arguments, ans, w) ==
    IF arguments.type # "dict"
    THEN Outcome(Raise("AttributeError"), w)
    ELSE LET filepath == Get(arguments, "filepath", "")
             content == Get(arguments, "content", "")
             exists == Exists(w.fs, filepath)
         IN  IF filepath = NONSTR
             THEN Outcome(Raise("TypeError"), w)
             ELSE IF exists /\ ~ans.confirm
             THEN Outcome(Return(FALSE, "User cancelled overwrite"), w)
             ELSE IF content = NONSTR
             THEN Outcome(Return(FALSE, "TypeError"), w)
             ELSE IF FsAt(w.fs, filepath) = ISDIR
             THEN Outcome(Return(FALSE, "IsADirectoryError"), w)
             ELSE Outcome(
                    Return(TRUE, "Updated " \o filepath),
                    World([w.fs EXCEPT ![filepath] = content], w.log,
                          Append(w.acted, [kind |-> "write",
                                           target |-> filepath]),
                          w.n))

write_file(arguments, ans, w) ==
    IF arguments.type # "dict"
    THEN Outcome(Raise("AttributeError"), w)
    ELSE LET filepath == Get(arguments, "filepath", "")
             content == Get(arguments, "content", "")
             exists == Exists(w.fs, filepath)
         IN  IF filepath = NONSTR
             THEN Outcome(Raise("TypeError"), w)            \* Path(filepath)
             ELSE IF exists /\ ~ans.confirm
             THEN Outcome(Return(FALSE, "User cancelled overwrite"), w)
             ELSE IF content = NONSTR
             THEN Outcome(Return(FALSE, "TypeError"), w)    \* write_text
             ELSE IF FsAt(w.fs, filepath) = ISDIR
             THEN Outcome(Return(FALSE, "IsADirectoryError"), w)
             ELSE Outcome(
                    Return(TRUE, (IF exists THEN "Updated " ELSE "Created ")
                                 \o filepath),
                    World([w.fs EXCEPT ![filepath] = content], w.log,
                          Append(w.acted, [kind |-> "write",
                                           target |-> filepath]),
                          w.n))

(***************************************************************************)
(* CommandExecutor._execute_tool: dispatch; an Exception raised by the     *)
(* handler becomes (False, str(e)).                                        *)
(***************************************************************************)
Entered(w) == World(w.fs, w.log, w.acted, w.n + 1)

Dispatch(tool_name, arguments, ans, w) ==
    CASE tool_name = "execute_shell_command" ->
            execute_shell_command(arguments, ans, Entered(w))
      [] tool_name = "read_file" -> read_file(arguments, ans, Entered(w))
      [] tool_name = "write_file" -> write_file(arguments, ans, Entered(w))
      [] OTHER -> Outcome(Return(FALSE, "Unknown tool: " \o tool_name), w)

execute_tool(tool_name, arguments, ans, w) ==
    LET o == Dispatch(tool_name, arguments, ans, w)
    IN  IF o.out.raised
        THEN Outcome(Return(FALSE, o.out.result), o.w)
        ELSE o

(***************************************************************************)
(* CommandExecutor.execute_with_approval                                   *)
(***************************************************************************)
\* A faulty execute_with_approval in which the skip branch is missing and
\* the choice falls through to the execution.
execute_with_approval_skip_runs(tool_name, arguments, auto_approve, ans, w) ==
    LET shown == format_tool_display(tool_name, arguments)
    IN  IF shown.raised
        THEN Outcome(shown, w)
        ELSE IF ~auto_approve /\ ans.choice = "^C"
        THEN Outcome(Raise("KeyboardInterrupt"), w)
        ELSE IF ~auto_approve /\ ans.choice \in {"m", "modify"}
        THEN LET modified == modify_arguments(tool_name, arguments, ans.reply)
             IN  IF modified.raised
                 THEN Outcome(modified, w)
                 ELSE execute_tool(tool_name, modified.result, ans, w)
        ELSE execute_tool(tool_name, arguments, ans, w)

\* A faulty execute_with_approval in which auto-approve answers the
\* overwrite question of write_file as well.
execute_with_approval_auto_yes(tool_name, arguments, auto_approve, ans, w) ==
    LET shown == format_tool_display(tool_name, arguments)
    IN  IF shown.raised
        THEN Outcome(shown, w)
        ELSE IF auto_approve
        THEN execute_tool(tool_name, arguments,
                          [ans EXCEPT !.confirm = TRUE], w)
        ELSE IF ans.choice = "^C"
        THEN Outcome(Raise("KeyboardInterrupt"), w)
        ELSE IF ans.choice \in {"s", "skip"}
        THEN Outcome(Return(FALSE, "Skipped by user"), w)
        ELSE IF ans.choice \in {"m", "modify"}
        THEN LET modified == modify_arguments(tool_name, arguments, ans.reply)
             IN  IF modified.raised
                 THEN Outcome(modified, w)
                 ELSE execute_tool(tool_name, modified.result, ans, w)
        ELSE execute_tool(tool_name, arguments, ans, w)

execute_with_approval(tool_name, arguments, auto_approve, ans, w) ==
    LET shown == format_tool_display(tool_name, arguments)
    IN  IF shown.raised
        THEN Outcome(shown, w)
        ELSE IF auto_approve
        THEN execute_tool(tool_name, arguments, ans, w)
        ELSE IF ans.choice = "^C"
        THEN Outcome(Raise("KeyboardInterrupt"), w)
        ELSE IF ans.choice \in {"e", "execute"}
        THEN execute_tool(tool_name, arguments, ans, w)
        ELSE IF ans.choice \in {"m", "modify"}
        THEN LET modified == modify_arguments(tool_name, arguments, ans.reply)
             IN  IF modified.raised
                 THEN Outcome(modified, w)
                 ELSE execute_tool(tool_name, modified.result, ans, w)
        ELSE IF ans.choice \in {"s", "skip"}
        THEN Outcome(Return(FALSE, "Skipped by user"), w)
        ELSE execute_tool(tool_name, arguments, ans, w)


(***************************************************************************)
(* Text.  A text is a sequence of tokens; the backend sends one token per  *)
(* content line.  A token is plain text or one whole fenced block.  kind   *)
(* is "text", "json" for a block fenced with ```json, or the language of   *)
(* another fence.  A json block carries what json.loads makes of its       *)
(* content:                                                                *)
(*   parse      "invalid" (JSONDecodeError), "object", or the type of      *)
(*              another JSON value                                         *)
(*   keys       the keys of the object                                     *)
(*   tool       the value of its "tool" key, arguments that of its         *)
(*              "arguments" key, when it has them                          *)
(***************************************************************************)
Token(kind, text, parse, keys, tool, arguments) ==
    [kind |-> kind, text |-> text, parse |-> parse, keys |-> keys,
     tool |-> tool, arguments |-> arguments]

T(s) == Token("text", s, "none", {}, "", Dict(<<>>))

Fence(parse, keys, tool, arguments) ==
    Token("json", "", parse, keys, tool, arguments)

\* a json block whose content parses to an object with both keys
Block(tool, arguments) ==
    Fence("object", {"tool", "arguments"}, tool, arguments)

\* The fragments the backend sends in the full program: plain text that
\* suggests no shell command, and json blocks, one of them naming a tool
\* the executor does not know.
StreamBlocks ==
    { Block("read_file", Dict([k \in {"filepath"} |-> "f1"])),
      Block("write_file", NonDict("str")),
      Block("other_tool", Dict(<<>>)) }
Fragments == {T("hello")} \cup StreamBlocks

ErrorFragment == T("Error communicating with LLM")

(***************************************************************************)
(* LLMClientWithTools._extract_tool_calls: one invocation per json block   *)
(* with both keys, in text order, ids call_0, call_1, ...                  *)
(***************************************************************************)
\* A faulty id that does not count the invocations found so far.
CallId_fixed(n) == "call_0"

CallId(n) == "call_" \o ToString(n)

\* A faulty _extract_tool_calls that looks for the "tool" key alone.
RECURSIVE extract_tool_calls_tool_only(_)
extract_tool_calls_tool_only(text) ==
    IF text = <<>>
    THEN <<>>
    ELSE LET before ==
                 extract_tool_calls_tool_only(SubSeq(text, 1, Len(text) - 1))
             block == text[Len(text)]
         IN  IF block.kind # "json"                  \* re.findall
             THEN before
             ELSE IF block.parse = "invalid"         \* JSONDecodeError
             THEN before
             ELSE IF block.parse = "object" /\ "tool" \in block.keys
             THEN Append(before, [name |-> block.tool,
                                  arguments |-> block.arguments,
                                  id |-> CallId(Len(before))])
             ELSE before

RECURSIVE extract_tool_calls(_)
extract_tool_calls(text) ==
    IF text = <<>>
    THEN <<>>
    ELSE LET before == extract_tool_calls(SubSeq(text, 1, Len(text) - 1))
             block == text[Len(text)]
         IN  IF block.kind # "json"                  \* re.findall
             THEN before
             ELSE IF block.parse = "invalid"         \* JSONDecodeError
             THEN before
             ELSE IF /\ block.parse = "object"       \* isinstance(data, dict)
                     /\ "tool" \in block.keys
                     /\ "arguments" \in block.keys
             THEN Append(before, [name |-> block.tool,
                                  arguments |-> block.arguments,
                                  id |-> CallId(Len(before))])
             ELSE before

(***************************************************************************)
(* Personas (expert_modes.py).                                             *)
(***************************************************************************)
ExpertModes == {"linux", "python", "devops", "database", "general"}
ResponseModes == {"quick", "full"}

\* get_expert_config(...)["name"] after add_user_message's replace calls
\* (the database name keeps the second of its two blanks)
ExpertName(expert_mode) ==
    CASE expert_mode = "linux" -> "Linux Expert"
      [] expert_mode = "python" -> "Python Expert"
      [] expert_mode = "devops" -> "DevOps Expert"
      [] expert_mode = "database" -> " Database Expert"
      [] OTHER -> "General Assistant"

\* get_system_prompt: an opaque text that names the persona and verbosity
get_system_prompt(expert_mode, response_mode) ==
    "system:" \o expert_mode \o ":" \o response_mode

(***************************************************************************)
(* Conversation history (LLMClientWithTools.conversation_history).         *)
(* A message carries, besides the fields of the code, the number of the    *)
(* user turn that appended it (0 for the system message).                  *)
(***************************************************************************)
Message(role, content, tool_call_id, name, turn) ==
    [role |-> role, content |-> content, tool_call_id |-> tool_call_id,
     name |-> name, turn |-> turn]

\* A faulty add_system_message that inserts without looking at index 0.
add_system_message_always(history, prompt) ==
    <<Message("system", <<T(prompt)>>, "", "", 0)>> \o history

add_system_message(history, prompt) ==
    IF history = <<>> \/ history[1].role # "system"
    THEN <<Message("system", <<T(prompt)>>, "", "", 0)>> \o history
    ELSE history

\* A faulty add_user_message that tags every user message.
add_user_message_tags_all(history, content, expert_mode, turn) ==
    Append(history,
           Message("user", <<T("[You are " \o ExpertName(expert_mode) \o "]"),
                             T(content)>>, "", "", turn))

add_user_message(history, content, expert_mode, turn) ==
    LET is_first_user_message ==
            ~\E i \in 1..Len(history) : history[i].role = "user"
        text == IF is_first_user_message
                THEN <<T("[You are " \o ExpertName(expert_mode) \o "]"),
                       T(content)>>
                ELSE <<T(content)>>
    IN  Append(history, Message("user", text, "", "", turn))

add_assistant_message(history, content, turn) ==
    Append(history, Message("assistant", content, "", "", turn))

add_tool_result(history, tool_call_id, tool_name, result, turn) ==
    Append(history, Message("tool", <<T(result)>>, tool_call_id, tool_name,
                            turn))

\* A faulty replacement that starts the history again from the new system
\* message.
replace_system_message_restarts(history, prompt) ==
    IF history # <<>> /\ history[1].role = "system"
    THEN <<[history[1] EXCEPT !.content = <<T(prompt)>>]>>
    ELSE history

\* set_expert_mode / set_response_mode: replace the system message in place
replace_system_message(history, prompt) ==
    IF history # <<>> /\ history[1].role = "system"
    THEN [history EXCEPT ![1].content = <<T(prompt)>>]
    ELSE history

\* A faulty clear_history that leaves the history as it is.
clear_history_keeps(history) == history

clear_history(history) == <<>>

\* InteractiveCLI.run, lines 285-290: drop the trailing user message
rollback(history) ==
    IF history # <<>> /\ history[Len(history)].role = "user"
    THEN SubSeq(history, 1, Len(history) - 1)
    ELSE history


(***************************************************************************)
(* State.                                                                  *)
(***************************************************************************)
VARIABLES
    pc,                    \* where the interactive loop is
    auto_approve,          \* InteractiveCLI.auto_approve
    via,                   \* "plain" (run) or "multiline": who owns the turn
    response_text,         \* text accumulated from the current stream
    tool_calls,            \* invocations still to handle in this turn
    was_cancelled,         \* the was_cancelled local of the turn
    conversation_history,  \* LLMClientWithTools.conversation_history
    cancel_flag,           \* LLMClientWithTools._cancel_flag
    stream_cancelled,      \* LLMClient._stream_cancelled
    expert_mode,           \* LLMClientWithTools.expert_mode
    response_mode,         \* LLMClientWithTools.response_mode
    system_prompt,         \* LLMClientWithTools.system_prompt
    fs,                    \* the file system
    execution_history,     \* CommandExecutor.execution_history
    last_call,             \* the last execute_with_approval call and result
    executions,            \* number of tool executions dispatched so far
    events,                \* events chat_with_tools yielded in this stream
    lines,                 \* content lines received so far
    turn,                  \* number of the current user turn
    turn_state,            \* Idle, Streaming, Completed, Cancelled, Failed
    cancel_at,             \* Len(events) when cancel_response was first
                           \* called in this stream, -1 if it was not
    truncated,             \* this stream dropped a content line it received
    commands,              \* special commands and outside calls so far
    late_cancel,           \* value of turn when cancel_response was last
                           \* called while no stream was open, -1 if never
    command_options,       \* what CommandParser.parse returned for the reply
    max_options,           \* the max_options argument of parse
    use_instruct,          \* LLMClient.use_instruct
    request,               \* temperature and max_tokens a caller passed:
                           \* <<>> for None, <<v>> for the value v
    payload,               \* temperature and max_tokens of the JSON payload
                           \* sent to the backend: <<>> for a key left out
    response,              \* what the backend did with the request
    returned,              \* what the last call returned or raised
    shell_cmd,             \* the text after "!" of a direct shell command
    elapsed,               \* seconds the direct shell command has run
    console                \* the last status the terminal printed

cliVars == <<pc, auto_approve, via, response_text, tool_calls,
             was_cancelled>>
sessionVars == <<conversation_history, cancel_flag, stream_cancelled,
                 expert_mode, response_mode, system_prompt>>
execVars == <<fs, execution_history, last_call, executions>>
streamVars == <<events, lines, cancel_at, truncated>>
turnVars == <<turn, turn_state, commands, late_cancel>>
parserVars == <<command_options, max_options>>
clientVars == <<use_instruct, request, payload, response, returned>>
shellVars == <<shell_cmd, elapsed, console>>
sideVars == <<parserVars, clientVars, shellVars>>
vars == <<cliVars, sessionVars, execVars, streamVars, turnVars, sideVars>>

NoCall ==
    [tool_name |-> "", arguments |-> Dict(<<>>), auto_approve |-> FALSE,
     choice |-> "none", reply |-> "", confirm |-> FALSE,
     out |-> Return(FALSE, ""), acted |-> <<>>]

\* The objects of the process as they are constructed.
Constructed ==
    [auto_approve |-> FALSE, via |-> "plain", response_text |-> <<>>,
     tool_calls |-> <<>>, was_cancelled |-> FALSE,
     conversation_history |-> <<>>, cancel_flag |-> FALSE,
     stream_cancelled |-> FALSE, expert_mode |-> "linux",
     response_mode |-> "quick",
     system_prompt |-> get_system_prompt("linux", "quick"),
     execution_history |-> <<>>, last_call |-> NoCall, executions |-> 0,
     events |-> <<>>, lines |-> 0, turn |-> 0, turn_state |-> "Idle",
     cancel_at |-> -1, truncated |-> FALSE, commands |-> 0,
     late_cancel |-> -1]

\* The process has ended: its objects are gone, the files stay.  p is
\* "exited", or says where the exception that ended the loop was raised:
\* "crashed_in_tool" (execute_with_approval) or "crashed_in_stream" (a
\* follow-up stream).
Ended(p) ==
    /\ pc' = p
    /\ auto_approve' = Constructed.auto_approve
    /\ via' = Constructed.via
    /\ response_text' = Constructed.response_text
    /\ tool_calls' = Constructed.tool_calls
    /\ was_cancelled' = Constructed.was_cancelled
    /\ conversation_history' = Constructed.conversation_history
    /\ cancel_flag' = Constructed.cancel_flag
    /\ stream_cancelled' = Constructed.stream_cancelled
    /\ expert_mode' = Constructed.expert_mode
    /\ response_mode' = Constructed.response_mode
    /\ system_prompt' = Constructed.system_prompt
    /\ execution_history' = Constructed.execution_history
    /\ last_call' = Constructed.last_call
    /\ executions' = Constructed.executions
    /\ events' = Constructed.events
    /\ lines' = Constructed.lines
    /\ turn' = Constructed.turn
    /\ turn_state' = Constructed.turn_state
    /\ cancel_at' = Constructed.cancel_at
    /\ truncated' = Constructed.truncated
    /\ commands' = Constructed.commands
    /\ late_cancel' = Constructed.late_cancel
    /\ UNCHANGED fs

\* No reply parsed, no request sent, no direct command run.
InitSide ==
    /\ command_options = <<>>
    /\ max_options = 3
    /\ use_instruct = FALSE
    /\ request = [temperature |-> <<>>, max_tokens |-> <<>>]
    /\ payload = [temperature |-> <<>>, max_tokens |-> <<>>]
    /\ response = "none"
    /\ returned = Return(TRUE, "")
    /\ shell_cmd = <<>>
    /\ elapsed = 0
    /\ console = ""

InitCommon ==
    /\ InitSide
    /\ pc = "prompt"
    /\ auto_approve = Constructed.auto_approve
    /\ via = Constructed.via
    /\ response_text = Constructed.response_text
    /\ tool_calls = Constructed.tool_calls
    /\ was_cancelled = Constructed.was_cancelled
    /\ conversation_history = Constructed.conversation_history
    /\ cancel_flag = Constructed.cancel_flag
    /\ stream_cancelled = Constructed.stream_cancelled
    /\ expert_mode = Constructed.expert_mode
    /\ response_mode = Constructed.response_mode
    /\ system_prompt = Constructed.system_prompt
    /\ execution_history = Constructed.execution_history
    /\ last_call = Constructed.last_call
    /\ executions = Constructed.executions
    /\ events = Constructed.events
    /\ lines = Constructed.lines
    /\ turn = Constructed.turn
    /\ turn_state = Constructed.turn_state
    /\ cancel_at = Constructed.cancel_at
    /\ truncated = Constructed.truncated
    /\ commands = Constructed.commands
    /\ late_cancel = Constructed.late_cancel

\* f1 is a file, f2 does not exist, d1 is a directory
Init ==
    /\ InitCommon
    /\ fs = [p \in Paths |->
               CASE p = "f1" -> "c1" [] p = "f2" -> ABSENT [] OTHER -> ISDIR]

(***************************************************************************)
(* The prompt: InteractiveCLI.run lines 206-231 and                        *)
(* _handle_special_command.                                                *)
(***************************************************************************)
AtPrompt == pc = "prompt"

\* EOFError at the prompt, or !quit / !exit / !q
Exit ==
    /\ AtPrompt
    /\ UNCHANGED sideVars
    /\ Ended("exited")

\* KeyboardInterrupt at the prompt, empty input, !status, !help, a !mode or
\* !expert with a bad argument, an empty !multiline, a direct !<shell
\* command>: back to the prompt
NoOpInput ==
    /\ AtPrompt
    /\ UNCHANGED sideVars
    /\ UNCHANGED <<pc, auto_approve, via, response_text, tool_calls,
                   was_cancelled, sessionVars, execVars, streamVars,
                   turnVars>>

\* !clear -> clear_history()
Clear ==
    /\ AtPrompt
    /\ UNCHANGED sideVars
    /\ commands < MaxCommands
    /\ commands' = commands + 1
    /\ conversation_history' = clear_history(conversation_history)
    /\ UNCHANGED <<pc, auto_approve, via, response_text, tool_calls,
                   was_cancelled, cancel_flag, stream_cancelled, expert_mode,
                   response_mode, system_prompt, execVars, streamVars,
                   turn, turn_state, late_cancel>>

\* !mode quick|full -> set_response_mode
SetResponseMode ==
    /\ AtPrompt
    /\ UNCHANGED sideVars
    /\ commands < MaxCommands
    /\ commands' = commands + 1
    /\ \E m \in ResponseModes :
          /\ response_mode' = m
          /\ system_prompt' = get_system_prompt(expert_mode, m)
          /\ conversation_history' =
                replace_system_message(conversation_history,
                                       get_system_prompt(expert_mode, m))
    /\ UNCHANGED <<pc, auto_approve, via, response_text, tool_calls,
                   was_cancelled, cancel_flag, stream_cancelled, expert_mode,
                   execVars, streamVars, turn, turn_state, late_cancel>>

\* !expert <name>, for the names typed in this model
TypedExperts == {"linux", "database"}

SetExpertMode ==
    /\ AtPrompt
    /\ UNCHANGED sideVars
    /\ commands < MaxCommands
    /\ commands' = commands + 1
    /\ \E e \in TypedExperts :
          /\ expert_mode' = e
          /\ system_prompt' = get_system_prompt(e, response_mode)
          /\ conversation_history' =
                clear_history(
                    replace_system_message(conversation_history,
                                           get_system_prompt(e, response_mode)))
    /\ UNCHANGED <<pc, auto_approve, via, response_text, tool_calls,
                   was_cancelled, cancel_flag, stream_cancelled,
                   response_mode, execVars, streamVars, turn, turn_state,
                   late_cancel>>

\* !auto-approve on|off
SetAutoApprove ==
    /\ AtPrompt
    /\ UNCHANGED sideVars
    /\ commands < MaxCommands
    /\ commands' = commands + 1
    /\ \E b \in BOOLEAN : auto_approve' = b
    /\ UNCHANGED <<pc, via, response_text, tool_calls, was_cancelled,
                   sessionVars, execVars, streamVars, turn, turn_state,
                   late_cancel>>


(***************************************************************************)
(* The two cancellation flags.                                             *)
(***************************************************************************)
Flags(c, s) == [cancel_flag |-> c, stream_cancelled |-> s]
CurrentFlags == Flags(cancel_flag, stream_cancelled)

\* LLMClientWithTools.cancel_response with LLMClient.cancel_stream
cancel_response(f) == Flags(TRUE, TRUE)
\* InteractiveCLI.run lines 244-245 (and 440-441)
run_reset_flags(f) == Flags(FALSE, FALSE)
\* A faulty chat_with_tools that leaves _cancel_flag as it finds it.
chat_with_tools_no_reset(f) == f

\* chat_with_tools line 152
chat_with_tools_reset(f) == Flags(FALSE, f.stream_cancelled)
\* _stream_chat line 304
stream_chat_reset(f) == Flags(f.cancel_flag, FALSE)
\* _stream_chat lines 337-339
stream_chat_finally(f) == Flags(f.cancel_flag, FALSE)

\* The flags when the request of one chat_with_tools call is sent.
request_flags(f) == stream_chat_reset(chat_with_tools_reset(f))

\* A faulty start of a turn in which no reset of the flags is reached.
turn_flags_stale(f) == f

\* The flags when the request of a new user turn is sent.
turn_flags(f) == request_flags(run_reset_flags(f))

(***************************************************************************)
(* One network event of LLMClient._stream_chat.  kind is                   *)
(*   "content"    a data line with a content fragment                      *)
(*   "ignored"    a line that yields nothing (no data: prefix, invalid     *)
(*                JSON, empty content)                                     *)
(*   "done"       data: [DONE], or the end of the lines                    *)
(*   "http_error" httpx.HTTPError raised by the request or the read        *)
(*   "exception"  a data line whose handling raises another exception      *)
(* The result says what is yielded and whether the generator ended.        *)
(***************************************************************************)
LineKinds == {"content", "ignored", "done", "http_error", "exception"}

Transport(yielded, ended, raised, dropped) ==
    [yielded |-> yielded, ended |-> ended, raised |-> raised,
     dropped |-> dropped]

stream_chat_line(kind, fragment, f) ==
    IF kind = "http_error"
    THEN Transport(IF f.stream_cancelled THEN <<>> ELSE <<ErrorFragment>>,
                   TRUE, FALSE, FALSE)
    ELSE IF f.stream_cancelled
    THEN Transport(<<>>, TRUE, FALSE, kind = "content")        \* break
    ELSE CASE kind = "content" -> Transport(<<fragment>>, FALSE, FALSE, FALSE)
           [] kind = "ignored" -> Transport(<<>>, FALSE, FALSE, FALSE)
           [] kind = "done" -> Transport(<<>>, TRUE, FALSE, FALSE)
           [] OTHER -> Transport(<<>>, TRUE, TRUE, FALSE)

(***************************************************************************)
(* LLMClientWithTools.chat_with_tools, one network event: the loop body    *)
(* for the yielded fragment, and lines 179-189 when the transport ended.   *)
(*   ended      the generator of chat_with_tools finished                  *)
(*   raised     with an exception                                          *)
(*   cancelled  after yielding {"type": "cancelled"}                       *)
(***************************************************************************)
ToolCallEvents(calls) == [i \in 1..Len(calls) |-> "tool_call"]

chat_with_tools_step(kind, fragment, f, text, evs) ==
    LET t == stream_chat_line(kind, fragment, f)
        after == IF t.ended THEN stream_chat_finally(f) ELSE f
    IN  IF t.yielded # <<>> /\ f.cancel_flag
        THEN [ended |-> TRUE, raised |-> FALSE, cancelled |-> TRUE,
              text |-> text, events |-> Append(evs, "cancelled"),
              calls |-> <<>>, flags |-> f, dropped |-> TRUE]
        ELSE LET text2 == text \o t.yielded
                 evs2 == evs \o [i \in 1..Len(t.yielded) |-> "text"]
                 calls == IF t.ended /\ ~t.raised
                          THEN extract_tool_calls(text2) ELSE <<>>
             IN  [ended |-> t.ended, raised |-> t.raised,
                  cancelled |-> FALSE, text |-> text2,
                  events |-> evs2 \o ToolCallEvents(calls),
                  calls |-> calls, flags |-> after, dropped |-> t.dropped]

\* asyncio.CancelledError thrown into the stream (stream_task.cancel()):
\* the transport's finally runs, chat_with_tools yields the signal.
chat_with_tools_cancelled(f, text, evs) ==
    [ended |-> TRUE, raised |-> FALSE, cancelled |-> TRUE, text |-> text,
     events |-> Append(evs, "cancelled"), calls |-> <<>>,
     flags |-> stream_chat_finally(f), dropped |-> FALSE]

(***************************************************************************)
(* What the loop does when the stream task of a user turn has ended.       *)
(* outcome is "Completed", "Cancelled" or "Failed".                        *)
(***************************************************************************)
AfterTurn(history, calls, cancelled) ==
    [history |-> history, tool_calls |-> calls, was_cancelled |-> cancelled,
     pc |-> IF calls # <<>> THEN "approval" ELSE "prompt"]

\* A faulty end of a turn that pops the user message before it looks at
\* was_cancelled.
run_after_stream_pop_first(history, text, calls, outcome, n) ==
    IF outcome \in {"Cancelled", "Failed"}
    THEN AfterTurn(rollback(history), <<>>, TRUE)
    ELSE AfterTurn(add_assistant_message(rollback(history), text, n), calls,
                   FALSE)

\* InteractiveCLI.run lines 266-306
run_after_stream(history, text, calls, outcome, n) ==
    IF outcome \in {"Cancelled", "Failed"}
    THEN AfterTurn(rollback(history), <<>>, TRUE)
    ELSE AfterTurn(add_assistant_message(history, text, n), calls, FALSE)

\* _handle_special_command (!multiline) lines 462-486
multiline_after_stream(history, text, calls, outcome, n) ==
    IF outcome \in {"Cancelled", "Failed"}
    THEN AfterTurn(history, <<>>, TRUE)
    ELSE AfterTurn(history, calls, FALSE)

OutcomeOf(r) ==
    IF r.raised THEN "Failed"
    ELSE IF r.cancelled THEN "Cancelled" ELSE "Completed"


(***************************************************************************)
(* Starting a user turn: run lines 233-264, !multiline lines 427-460.      *)
(***************************************************************************)
UserTexts == {"hi"}

StartTurn(v) ==
    /\ AtPrompt
    /\ UNCHANGED sideVars
    /\ turn < MaxTurns
    /\ \E content \in UserTexts :
          conversation_history' =
              add_system_message(
                  add_user_message(conversation_history, content,
                                   expert_mode, turn + 1),
                  system_prompt)
    /\ LET f == turn_flags(CurrentFlags)
       IN  /\ cancel_flag' = f.cancel_flag
           /\ stream_cancelled' = f.stream_cancelled
    /\ pc' = "streaming"
    /\ via' = v
    /\ response_text' = <<>>
    /\ tool_calls' = <<>>
    /\ was_cancelled' = FALSE
    /\ events' = <<>>
    /\ cancel_at' = -1
    /\ truncated' = FALSE
    /\ turn' = turn + 1
    /\ turn_state' = "Streaming"
    /\ UNCHANGED <<auto_approve, expert_mode, response_mode, system_prompt,
                   execVars, lines, commands, late_cancel>>

PlainInput == StartTurn("plain")

Multiline == StartTurn("multiline")

(***************************************************************************)
(* The end of a stream, seen from its consumer.                            *)
(***************************************************************************)
\* stream_response and the code after "await stream_task"
EndTurn(r) ==
    LET a == IF via = "plain"
             THEN run_after_stream(conversation_history, r.text, r.calls,
                                   OutcomeOf(r), turn)
             ELSE multiline_after_stream(conversation_history, r.text,
                                         r.calls, OutcomeOf(r), turn)
    IN  /\ conversation_history' = a.history
        /\ tool_calls' = a.tool_calls
        /\ was_cancelled' = a.was_cancelled
        /\ pc' = a.pc
        /\ turn_state' = OutcomeOf(r)

\* A faulty _handle_tool_calls that queues the invocations of a follow-up
\* reply behind the ones left.
EndFollowup_queues_calls(r) ==
    /\ conversation_history' =
          add_assistant_message(conversation_history, r.text, turn)
    /\ tool_calls' = tool_calls \o r.calls
    /\ pc' = IF tool_calls \o r.calls # <<>> THEN "approval" ELSE "prompt"
    /\ UNCHANGED <<was_cancelled, turn_state>>

\* _handle_tool_calls lines 603-610: only text events are looked at
EndFollowup(r) ==
    /\ conversation_history' =
          add_assistant_message(conversation_history, r.text, turn)
    /\ pc' = IF tool_calls # <<>> THEN "approval" ELSE "prompt"
    /\ UNCHANGED <<tool_calls, was_cancelled, turn_state>>

Streaming == pc \in {"streaming", "followup"}

\* One network event reaches the stream.  An exception raised in a
\* follow-up stream leaves _handle_tool_calls and the loop of run, which
\* catches KeyboardInterrupt only.
Recv(kind, fragment) ==
    /\ Streaming
    /\ UNCHANGED sideVars
    /\ kind = "content" => lines < MaxLines
    /\ LET r == chat_with_tools_step(kind, fragment, CurrentFlags,
                                     response_text, events)
       IN  IF r.raised /\ pc = "followup"
           THEN Ended("crashed_in_stream")
           ELSE /\ response_text' = r.text
                /\ events' = r.events
                /\ cancel_flag' = r.flags.cancel_flag
                /\ stream_cancelled' = r.flags.stream_cancelled
                /\ truncated' = (truncated \/ r.dropped)
                /\ lines' = IF kind = "content" THEN lines + 1 ELSE lines
                /\ IF ~r.ended
                   THEN UNCHANGED <<pc, conversation_history, tool_calls,
                                    was_cancelled, turn_state>>
                   ELSE IF pc = "streaming" THEN EndTurn(r)
                        ELSE EndFollowup(r)
                /\ UNCHANGED <<auto_approve, via, expert_mode, response_mode,
                               system_prompt, execVars, cancel_at, turn,
                               commands, late_cancel>>

RecvContent == \E fragment \in Fragments : Recv("content", fragment)
RecvIgnored == Recv("ignored", T(""))
RecvDone == Recv("done", T(""))
RecvHttpError == Recv("http_error", T(""))
RecvException == Recv("exception", T(""))

\* cancel_response() called by another party while the loop is suspended
CancelResponse ==
    /\ pc \in {"prompt", "approval", "streaming", "followup"}
    /\ UNCHANGED sideVars
    /\ commands < MaxCommands
    /\ commands' = commands + 1
    /\ LET f == cancel_response(CurrentFlags)
       IN  /\ cancel_flag' = f.cancel_flag
           /\ stream_cancelled' = f.stream_cancelled
    /\ cancel_at' = IF Streaming /\ cancel_at = -1 THEN Len(events)
                    ELSE cancel_at
    /\ late_cancel' = IF Streaming THEN late_cancel ELSE turn
    /\ UNCHANGED <<cliVars, conversation_history, expert_mode, response_mode,
                   system_prompt, execVars, events, lines, truncated,
                   turn, turn_state>>

\* KeyboardInterrupt at "await stream_task" (run lines 268-277)
StreamInterrupt ==
    /\ pc = "streaming"
    /\ UNCHANGED sideVars
    /\ LET r == chat_with_tools_cancelled(cancel_response(CurrentFlags),
                                          response_text, events)
       IN  /\ response_text' = r.text
           /\ events' = r.events
           /\ cancel_flag' = r.flags.cancel_flag
           /\ stream_cancelled' = r.flags.stream_cancelled
           /\ EndTurn(r)
    /\ cancel_at' = IF cancel_at = -1 THEN Len(events) ELSE cancel_at
    /\ UNCHANGED <<auto_approve, via, expert_mode, response_mode,
                   system_prompt, execVars, lines, truncated, turn, commands,
                   late_cancel>>

\* KeyboardInterrupt during a follow-up stream: caught at run line 308
FollowupInterrupt ==
    /\ pc = "followup"
    /\ UNCHANGED sideVars
    /\ LET f == stream_chat_finally(CurrentFlags)
       IN  /\ cancel_flag' = f.cancel_flag
           /\ stream_cancelled' = f.stream_cancelled
    /\ pc' = "prompt"
    /\ tool_calls' = <<>>
    /\ UNCHANGED <<auto_approve, via, response_text,
                   was_cancelled, conversation_history, expert_mode,
                   response_mode, system_prompt, execVars, streamVars,
                   turnVars>>

(***************************************************************************)
(* InteractiveCLI._handle_tool_calls: one iteration of its loop, up to the *)
(* request of the follow-up stream.                                        *)
(***************************************************************************)
Asked(tool_name, arguments, auto) ==
    ~auto /\ ~format_tool_display(tool_name, arguments).raised

\* execute_with_approval lines 56-65: the branch a choice selects
Branch(choice) ==
    CASE choice \in {"e", "execute"} -> "execute"
      [] choice \in {"m", "modify"} -> "modify"
      [] choice \in {"s", "skip"} -> "skip"
      [] OTHER -> choice

\* What is kept of one call: the tool name and arguments it was called
\* with, the answers given at its prompts ("none" when the approval prompt
\* was not shown, "" when the modify prompt was not), its result and the
\* tool actions it performed.
CallRecord(tool_name, arguments, auto, ans, o) ==
    LET asked == Asked(tool_name, arguments, auto)
    IN  [tool_name |-> tool_name, arguments |-> arguments,
         auto_approve |-> auto,
         choice |-> IF asked THEN Branch(ans.choice) ELSE "none",
         reply |-> IF asked /\ Branch(ans.choice) = "modify" THEN ans.reply
                   ELSE "",
         confirm |-> ans.confirm,
         out |-> o.out, acted |-> o.w.acted]

ResultText(out) ==
    IF out.result # "" THEN out.result
    ELSE IF out.success THEN "Success" ELSE "Failed"

HandleToolCall ==
    /\ pc = "approval"
    /\ UNCHANGED sideVars
    /\ \E ans \in AnswersFor(Head(tool_calls).name) :
         LET call == Head(tool_calls)
             o == execute_with_approval(call.name, call.arguments,
                      auto_approve, ans,
                      World(fs, execution_history, <<>>, executions))
             told == add_tool_result(conversation_history, call.id,
                                     call.name, ResultText(o.out), turn)
             f == request_flags(CurrentFlags)
             interrupted == o.out.raised /\ o.out.result = "KeyboardInterrupt"
         IN  IF o.out.raised /\ ~interrupted
             THEN Ended("crashed_in_tool")
             ELSE
             /\ last_call' = CallRecord(call.name, call.arguments,
                                        auto_approve, ans, o)
             /\ fs' = o.w.fs
             /\ execution_history' = o.w.log
             /\ executions' = o.w.n
             /\ IF interrupted                    \* caught at run line 308
                THEN /\ pc' = "prompt"
                     /\ tool_calls' = <<>>
                     /\ UNCHANGED <<conversation_history, cancel_flag,
                                    stream_cancelled, response_text,
                                    streamVars>>
                ELSE IF o.out.success
                THEN /\ conversation_history' =
                            add_system_message(told, system_prompt)
                     /\ cancel_flag' = f.cancel_flag
                     /\ stream_cancelled' = f.stream_cancelled
                     /\ pc' = "followup"
                     /\ tool_calls' = Tail(tool_calls)
                     /\ response_text' = <<>>
                     /\ events' = <<>>
                     /\ cancel_at' = -1
                     /\ truncated' = FALSE
                     /\ UNCHANGED lines
                ELSE /\ conversation_history' = told
                     /\ tool_calls' = Tail(tool_calls)
                     /\ pc' = IF Tail(tool_calls) # <<>> THEN "approval"
                              ELSE "prompt"
                     /\ UNCHANGED <<cancel_flag, stream_cancelled,
                                    response_text, streamVars>>
             /\ UNCHANGED <<auto_approve, via, was_cancelled, expert_mode,
                            response_mode, system_prompt, turnVars>>

Next ==
    \/ Exit
    \/ NoOpInput
    \/ Clear
    \/ SetResponseMode
    \/ SetExpertMode
    \/ SetAutoApprove
    \/ PlainInput
    \/ Multiline
    \/ RecvContent
    \/ RecvIgnored
    \/ RecvDone
    \/ RecvHttpError
    \/ RecvException
    \/ CancelResponse
    \/ StreamInterrupt
    \/ FollowupInterrupt
    \/ HandleToolCall

Spec == Init /\ [][Next]_vars


(***************************************************************************)
(* The executor driven alone: execute_with_approval called with any tool   *)
(* name, any arguments and any answers.                                    *)
(***************************************************************************)
ExecCall ==
    /\ executions < MaxCalls
    /\ UNCHANGED sideVars
    /\ \E tool_name \in ToolNames, auto \in BOOLEAN :
         \E arguments \in ArgumentsFor(tool_name),
            ans \in AnswersFor(tool_name) :
           LET o == execute_with_approval(tool_name, arguments, auto, ans,
                        World(fs, execution_history, <<>>, executions))
           IN  /\ last_call' = CallRecord(tool_name, arguments, auto, ans, o)
               /\ fs' = o.w.fs
               /\ execution_history' = o.w.log
               /\ executions' = o.w.n
    /\ UNCHANGED <<cliVars, sessionVars, streamVars, turnVars>>

NextExec == ExecCall

SpecExec == Init /\ [][NextExec]_vars


(***************************************************************************)
(* The decoder alone: _extract_tool_calls applied to any text of at most   *)
(* MaxTokens tokens.                                                       *)
(***************************************************************************)
\* The tokens of a text: plain text, a block of another language, blocks
\* that are invocations (one of a tool the executor does not know), and
\* json blocks that are none: invalid JSON, a JSON array, objects that lack
\* one key or both.
DecoderTokens ==
    { T("hello"),
      Token("python", "", "none", {}, "", Dict(<<>>)),
      Block("read_file", Dict([k \in {"filepath"} |-> "f1"])),
      Block("other_tool", Dict(<<>>)),
      Fence("invalid", {}, "", Dict(<<>>)),
      Fence("array", {}, "", Dict(<<>>)),
      Fence("object", {"tool"}, "read_file", Dict(<<>>)),
      Fence("object", {"arguments"}, "", Dict([k \in {"filepath"} |-> "f1"])),
      Fence("object", {}, "", Dict(<<>>)) }

Texts ==
    UNION {[1..n -> DecoderTokens] : n \in 0..MaxTokens}

InitDecode ==
    /\ InitSide
    /\ pc = "decode"
    /\ response_text \in Texts
    /\ auto_approve = Constructed.auto_approve
    /\ via = Constructed.via
    /\ tool_calls = Constructed.tool_calls
    /\ was_cancelled = Constructed.was_cancelled
    /\ conversation_history = Constructed.conversation_history
    /\ cancel_flag = Constructed.cancel_flag
    /\ stream_cancelled = Constructed.stream_cancelled
    /\ expert_mode = Constructed.expert_mode
    /\ response_mode = Constructed.response_mode
    /\ system_prompt = Constructed.system_prompt
    /\ execution_history = Constructed.execution_history
    /\ last_call = Constructed.last_call
    /\ executions = Constructed.executions
    /\ events = Constructed.events
    /\ lines = Constructed.lines
    /\ turn = Constructed.turn
    /\ turn_state = Constructed.turn_state
    /\ cancel_at = Constructed.cancel_at
    /\ truncated = Constructed.truncated
    /\ commands = Constructed.commands
    /\ late_cancel = Constructed.late_cancel
    /\ fs = [p \in Paths |-> ABSENT]

Decode ==
    /\ pc = "decode"
    /\ UNCHANGED sideVars
    /\ pc' = "decoded"
    /\ tool_calls' = extract_tool_calls(response_text)
    /\ UNCHANGED <<auto_approve, via, response_text, was_cancelled,
                   sessionVars, execVars, streamVars, turnVars>>

NextDecode == Decode

SpecDecode == InitDecode /\ [][NextDecode]_vars


(***************************************************************************)
(* Properties.                                                             *)
(***************************************************************************)
UserMessageOf(history, n) ==
    \E i \in 1..Len(history) :
        history[i].role = "user" /\ history[i].turn = n

MessagesOf(history, n) == {i \in 1..Len(history) : history[i].turn = n}

IsPrefix(s, t) == Len(s) <= Len(t) /\ SubSeq(t, 1, Len(s)) = s

ApprovedBranches == {"execute", "modify"}

\* C1: with auto-approve off, a call of execute_with_approval performs a
\* tool action (runs a command, reads or writes a file) only when the user
\* chose execute or modify; when the user chose skip the call returns
\* (False, "Skipped by user"), performs no tool action and leaves the files
\* and the execution log as they were.
C1_SkipPerformsNothing ==
    /\ [](~last_call.auto_approve =>
            /\ last_call.acted # <<>> => last_call.choice \in ApprovedBranches
            /\ last_call.choice = "skip" =>
                  /\ last_call.out = Return(FALSE, "Skipped by user")
                  /\ last_call.acted = <<>>)
    /\ [][(~last_call'.auto_approve /\ last_call'.choice = "skip")
             => UNCHANGED <<fs, execution_history, executions>>]_vars

\* A write_file on a path that does not exist was proposed and skipped
\* after an earlier call had been executed.
C1_Witness ==
    /\ last_call.tool_name = "write_file"
    /\ ~last_call.auto_approve
    /\ last_call.choice = "skip"
    /\ last_call.out.result = "Skipped by user"
    /\ executions >= 1
    /\ fs["f2"] = ABSENT

\* The first stream of the current turn was interrupted by a cancellation:
\* cancel_response was called while it was open and no tool was run in the
\* turn since.
FirstStreamCancelled ==
    /\ turn >= 1
    /\ cancel_at >= 0
    /\ ~\E i \in MessagesOf(conversation_history, turn) :
          conversation_history[i].role = "tool"

\* C2: when the stream of a turn is cancelled mid-stream, the turn ends
\* Cancelled and, once the loop is back at the prompt, the history holds
\* neither the user message nor an assistant message of that turn.
C2_CancelledTurnLeavesNoMessage ==
    (pc = "prompt" /\ FirstStreamCancelled) =>
        /\ turn_state = "Cancelled"
        /\ MessagesOf(conversation_history, turn) = {}

\* C3: when cancel_response() is called between two fragments of a
\* chat_with_tools stream, the stream yields no further event but exactly
\* one cancellation signal, its last event.
C3_CancelYieldsOneSignal ==
    (pc \in {"prompt", "approval"} /\ cancel_at >= 1) =>
        /\ Len(events) = cancel_at + 1
        /\ events[Len(events)] = "cancelled"

\* C4: the conversation history holds at most one system message, and a
\* system message is the first message.
C4_OneSystemMessageFirst ==
    \A i \in 1..Len(conversation_history) :
        conversation_history[i].role = "system" => i = 1

\* The system message was replaced in place by !mode full after a turn with
\* a tool result and a follow-up answer.
C4_Witness ==
    /\ Len(conversation_history) >= 5
    /\ conversation_history[1].role = "system"
    /\ conversation_history[1].content =
          <<T(get_system_prompt("linux", "full"))>>
    /\ \E i \in 1..Len(conversation_history) :
          conversation_history[i].role = "tool"

\* C5: whenever the loop is at the prompt, every user message of the
\* history is immediately followed by an assistant message.
C5_NoOrphanedUserMessage ==
    pc = "prompt" =>
        \A i \in 1..Len(conversation_history) :
            conversation_history[i].role = "user" =>
                /\ i < Len(conversation_history)
                /\ conversation_history[i + 1].role = "assistant"

\* The step that ends the first stream of a turn removes the user message
\* of the turn.
UserMessageRemoved ==
    /\ pc = "streaming"
    /\ UserMessageOf(conversation_history, turn)
    /\ ~UserMessageOf(conversation_history', turn)

RequestStarts == ~Streaming /\ Streaming'

\* C7: when the request of a stream is sent (a plain turn, a !multiline
\* turn or a follow-up after a tool result), _cancel_flag and
\* _stream_cancelled are both false.
C7_FlagsClearAtRequest ==
    [][RequestStarts => (~cancel_flag' /\ ~stream_cancelled')]_vars

\* A follow-up request was sent after cancel_response had been called
\* during the approval of the same turn.
C7_Witness ==
    /\ pc = "followup"
    /\ late_cancel = turn
    /\ events = <<>>
    /\ ~cancel_flag
    /\ ~stream_cancelled

\* cancel_response called while no stream is open.
LateCancelStep == ~Streaming /\ ~stream_cancelled /\ stream_cancelled'

FlagValues == {Flags(c, s) : c, s \in BOOLEAN}

\* C8: a cancel_response() call made after a stream has ended changes
\* neither the history nor the outcome of the turn; a stream is cut short
\* or ends Cancelled only by a cancellation made while it was open; and
\* calling cancel_response twice is calling it once.
C8_LateCancelHasNoEffect ==
    /\ []((turn_state = "Cancelled" \/ truncated) => cancel_at >= 0)
    /\ [][LateCancelStep =>
            UNCHANGED <<pc, conversation_history, response_text, tool_calls,
                        turn_state>>]_vars
    /\ [](\A f \in FlagValues :
            cancel_response(cancel_response(f)) = cancel_response(f))

\* cancel_response was called at the prompt after the first turn had
\* completed, and the second turn completed with all its text.
C8_Witness ==
    /\ pc = "prompt"
    /\ turn = 2
    /\ late_cancel = 1
    /\ turn_state = "Completed"
    /\ ~truncated
    /\ cancel_at = -1
    /\ response_text # <<>>
    /\ Len(conversation_history) = 5
    /\ conversation_history[3].role = "assistant"
    /\ conversation_history[5].content = response_text

\* C9: for every tool invocation decoded from the text of the model,
\* execute_with_approval returns a pair: no exception raised while the
\* invocation is handled ends the interactive loop.
C9_NoExceptionReachesLoop == pc # "crashed_in_tool"

\* C10: every execution dispatched to a tool handler appends exactly one
\* record to the execution log, and no step removes or changes a record.
C10_EveryExecutionLogged ==
    [][/\ IsPrefix(execution_history, execution_history')
       /\ executions' = executions + 1 =>
             Len(execution_history') = Len(execution_history) + 1]_vars

\* C11: a json block that names a tool the executor does not know is
\* silently skipped: the approval prompt is never shown for it and no tool
\* message of the history carries its name.
C11_UnknownToolSilentlySkipped ==
    /\ last_call.tool_name \notin KnownTools => last_call.choice = "none"
    /\ \A i \in 1..Len(conversation_history) :
          conversation_history[i].role = "tool" =>
              conversation_history[i].name \in KnownTools

\* A step of the prompt that changes the persona (!expert <name>).
ExpertChanged == pc = "prompt" /\ pc' = "prompt" /\ expert_mode' # expert_mode

\* C12: after the persona is changed with !expert, the history holds no
\* user, assistant or tool message from before the change, and the system
\* message of every request sent (the next one included) carries the prompt
\* text of the current persona and verbosity.
C12_ExpertChangeStartsAfresh ==
    /\ [][ExpertChanged =>
            \A i \in 1..Len(conversation_history') :
                conversation_history'[i].role
                    \notin {"user", "assistant", "tool"}]_vars
    /\ [](Streaming =>
            /\ conversation_history # <<>>
            /\ conversation_history[1].role = "system"
            /\ conversation_history[1].content =
                  <<T(get_system_prompt(expert_mode, response_mode))>>)

\* The second turn was started after !expert database had cleared the
\* messages of the first: its request carries the database prompt and the
\* user message of the second turn alone.
C12_Witness ==
    /\ pc = "streaming"
    /\ expert_mode = "database"
    /\ turn = 2
    /\ Len(conversation_history) = 2
    /\ conversation_history[1].content =
          <<T(get_system_prompt("database", response_mode))>>
    /\ conversation_history[2].role = "user"
    /\ conversation_history[2].turn = 2

\* A step of the prompt that changes the verbosity (!mode quick|full).
ResponseModeChanged ==
    pc = "prompt" /\ pc' = "prompt" /\ response_mode' # response_mode

\* C13: changing the verbosity does not clear the history: the history
\* keeps its length, every user, assistant and tool message stays what and
\* where it was, and a system message, when one is present, stays a system
\* message whose content alone is replaced by the prompt text of the new
\* verbosity.
C13_ResponseModeKeepsHistory ==
    [][ResponseModeChanged =>
         /\ Len(conversation_history') = Len(conversation_history)
         /\ \A i \in 1..Len(conversation_history) :
              IF conversation_history[i].role = "system"
              THEN conversation_history'[i] =
                     [conversation_history[i] EXCEPT !.content =
                        <<T(get_system_prompt(expert_mode, response_mode'))>>]
              ELSE conversation_history'[i] = conversation_history[i]]_vars

\* After a turn with a tool result and a follow-up answer the verbosity was
\* changed to full: the five messages are there and the system message
\* carries the full prompt.
C13_Witness ==
    /\ pc = "prompt"
    /\ response_mode = "full"
    /\ Len(conversation_history) = 5
    /\ conversation_history[1].content =
          <<T(get_system_prompt(expert_mode, "full"))>>
    /\ conversation_history[2].role = "user"
    /\ conversation_history[3].role = "assistant"
    /\ conversation_history[4].role = "tool"
    /\ conversation_history[5].role = "assistant"

\* The persona tag add_user_message puts before the first user message.
PersonaTag(e) == T("[You are " \o ExpertName(e) \o "]")

HoldsUserMessage(history) ==
    \E i \in 1..Len(history) : history[i].role = "user"

\* C14: the user message a new turn appends is the typed content with the
\* persona tag before it exactly when the history held no user message at
\* the time of the call, and the typed content unmodified when it held one.
C14_TagOnFirstUserMessageOnly ==
    [][turn' = turn + 1 =>
         LET added == conversation_history'[Len(conversation_history')]
         IN  /\ added.role = "user"
             /\ \E content \in UserTexts :
                  added.content =
                      IF HoldsUserMessage(conversation_history)
                      THEN <<T(content)>>
                      ELSE <<PersonaTag(expert_mode), T(content)>>]_vars

\* The second turn follows a completed first turn: the first user message
\* carries the tag, the second is stored as typed.
C14_Witness ==
    /\ pc = "streaming"
    /\ turn = 2
    /\ Len(conversation_history) = 4
    /\ conversation_history[2].role = "user"
    /\ conversation_history[2].content =
          <<PersonaTag(expert_mode), T("hi")>>
    /\ conversation_history[4].role = "user"
    /\ conversation_history[4].content = <<T("hi")>>

\* The executor's state before a call.
CurrentWorld == World(fs, execution_history, <<>>, executions)

\* The last call ran a child process.
ShellRan ==
    /\ last_call.tool_name = "execute_shell_command"
    /\ last_call.acted # <<>>

TargetPath(call) ==
    IF call.choice = "modify" /\ call.reply \notin {"", "^C"}
    THEN call.reply
    ELSE Get(call.arguments, "filepath", "")

\* A step in which a call of tool_name is dispatched to its handler.
Dispatched(tool_name) ==
    /\ last_call'.tool_name = tool_name
    /\ executions' = executions + 1

\* C16: a write_file on a path that exists, whose overwrite question is
\* answered no, returns (False, "User cancelled overwrite") and leaves
\* every file as it was.
C16_DeclinedOverwriteKeepsFile ==
    [][(/\ Dispatched("write_file")
        /\ TargetPath(last_call') # NONSTR
        /\ Exists(fs, TargetPath(last_call'))
        /\ ~last_call'.confirm)
          => /\ last_call'.out = Return(FALSE, "User cancelled overwrite")
             /\ last_call'.acted = <<>>
             /\ fs' = fs]_vars

\* The overwrite of the file f1 with new content was approved at the Action
\* prompt and declined at the overwrite question.
C16_Witness ==
    /\ last_call.tool_name = "write_file"
    /\ last_call.choice = "execute"
    /\ TargetPath(last_call) = "f1"
    /\ Get(last_call.arguments, "content", "") = "c2"
    /\ ~last_call.confirm
    /\ last_call.out = Return(FALSE, "User cancelled overwrite")
    /\ executions >= 1
    /\ fs["f1"] = "c1"

\* C17: a write_file that succeeds returns "Created <path>" exactly when
\* the path did not exist before the call and "Updated <path>" exactly when
\* it existed, which takes a confirmed overwrite; either way the content of
\* the file is the content argument afterwards and no other file changes.
\* A write_file of text to a path that does not exist does succeed, and so
\* does a confirmed one to an existing file.
C17_CreatedOrUpdated ==
    [][Dispatched("write_file") =>
         LET path == TargetPath(last_call')
             content == Get(last_call'.arguments, "content", "")
             out == last_call'.out
         IN  /\ out.success =>
                  /\ out.result = "Created " \o path <=> ~Exists(fs, path)
                  /\ out.result = "Updated " \o path
                        <=> (Exists(fs, path) /\ last_call'.confirm)
                  /\ out.result \in {"Created " \o path, "Updated " \o path}
                  /\ fs' = [fs EXCEPT ![path] = content]
             /\ (/\ path # NONSTR
                 /\ content # NONSTR
                 /\ FsAt(fs, path) # ISDIR
                 /\ Exists(fs, path) => last_call'.confirm)
                  => out.success]_vars

\* f2 was created by one call and updated, after a confirmed overwrite, by
\* the next.
C17_Witness ==
    /\ last_call.tool_name = "write_file"
    /\ TargetPath(last_call) = "f2"
    /\ last_call.confirm
    /\ last_call.out = Return(TRUE, "Updated f2")
    /\ executions = 2
    /\ fs["f2"] = Get(last_call.arguments, "content", "")
    /\ fs["f1"] = "c1"

\* C18: a read_file on a path that is an existing file returns (True, the
\* content of the file); on any other path (a missing path, or a path that
\* is not a regular file) it returns the file-not-found result; and it
\* changes no file.
C18_ReadFileFoundOrNotFound ==
    [][(Dispatched("read_file") /\ TargetPath(last_call') # NONSTR) =>
         LET path == TargetPath(last_call')
         IN  /\ last_call'.out =
                  IF FsAt(fs, path) \notin {ABSENT, ISDIR}
                  THEN Return(TRUE, FsAt(fs, path))
                  ELSE Return(FALSE, "File not found: " \o path)
             /\ fs' = fs]_vars

\* C19: when the user chooses modify at the approval prompt and then
\* cancels at the modify prompt, execute_with_approval returns
\* (False, "Modification cancelled") and performs no tool action.
C19_CancelledModificationReturns ==
    (last_call.choice = "modify" /\ last_call.reply = "^C") =>
        /\ last_call.out = Return(FALSE, "Modification cancelled")
        /\ last_call.acted = <<>>

\* A json block whose content parses to an object with a "tool" and an
\* "arguments" key.
IsInvocation(block) ==
    /\ block.kind = "json"
    /\ block.parse = "object"
    /\ {"tool", "arguments"} \subseteq block.keys

ToolMessagesOf(history, n) ==
    {i \in MessagesOf(history, n) : history[i].role = "tool"}

\* C21: the ids of the tool invocations of one turn are pairwise distinct:
\* the invocations decoded from the reply receive call_0, call_1, ... in
\* text order, so the invocations still to handle carry the ids that follow
\* those already answered, and no two tool messages of one turn carry the
\* same id.
C21_InvocationIdsDistinct ==
    /\ \A i \in 1..Len(tool_calls) :
         tool_calls[i].id =
            CallId(Cardinality(ToolMessagesOf(conversation_history, turn))
                   + i - 1)
    /\ \A n \in 1..turn :
         \A i, j \in ToolMessagesOf(conversation_history, n) :
            conversation_history[i].tool_call_id =
                conversation_history[j].tool_call_id => i = j

\* Both invocations of one reply were handled: their tool messages carry
\* call_0 and call_1.
C21_Witness ==
    \E i, j \in ToolMessagesOf(conversation_history, turn) :
        /\ i < j
        /\ conversation_history[i].tool_call_id = "call_0"
        /\ conversation_history[j].tool_call_id = "call_1"

(***************************************************************************)
(* CommandParser (command_parser.py).  A text is a sequence of characters, *)
(* each a string of length one; positions count from 1.                    *)
(***************************************************************************)
LowerCase == <<"a", "b", "c", "d", "e", "f", "g", "h", "i", "j", "k", "l",
    "m", "n", "o", "p", "q", "r", "s", "t", "u", "v", "w", "x", "y", "z">>
UpperCase == <<"A", "B", "C", "D", "E", "F", "G", "H", "I", "J", "K", "L",
    "M", "N", "O", "P", "Q", "R", "S", "T", "U", "V", "W", "X", "Y", "Z">>
Digits == {"0", "1", "2", "3", "4", "5", "6", "7", "8", "9"}
Whitespace == {" ", "\n", "\t"}
\* The backtick, which a string of the module cannot hold
Tick == "tick"

islower(c) == \E i \in DOMAIN LowerCase : LowerCase[i] = c
isupper(c) == \E i \in DOMAIN UpperCase : UpperCase[i] = c
\* \w of a regular expression
IsWord(c) == islower(c) \/ isupper(c) \/ c \in Digits \/ c = "_"

\* str.lower
lower(s) ==
    [i \in 1..Len(s) |->
        IF isupper(s[i])
        THEN LowerCase[CHOOSE k \in DOMAIN UpperCase : UpperCase[k] = s[i]]
        ELSE s[i]]

Least(S) == CHOOSE x \in S : \A y \in S : x <= y
Greatest(S) == CHOOSE x \in S : \A y \in S : x >= y

\* text[from:] of Python, from counted from 1
From(s, from) == SubSeq(s, from, Len(s))

\* pat occurs in s at position i
At(s, i, pat) ==
    /\ i >= 1
    /\ i + Len(pat) - 1 <= Len(s)
    /\ \A k \in 1..Len(pat) : s[i + k - 1] = pat[k]

\* \b after the character at position i - 1, which is a word character
WordEndsBefore(s, i) == i > Len(s) \/ ~IsWord(s[i])

\* str.strip, str.lstrip
lstrip(s) ==
    LET ix == {i \in 1..Len(s) : s[i] \notin Whitespace}
    IN  IF ix = {} THEN <<>> ELSE From(s, Least(ix))
strip(s) ==
    LET ix == {i \in 1..Len(s) : s[i] \notin Whitespace}
    IN  IF ix = {} THEN <<>> ELSE SubSeq(s, Least(ix), Greatest(ix))

\* str.split(sep) for a separator of one character
RECURSIVE split(_, _)
split(s, sep) ==
    LET ix == {i \in 1..Len(s) : s[i] = sep}
    IN  IF ix = {} THEN <<s>>
        ELSE <<SubSeq(s, 1, Least(ix) - 1)>>
                 \o split(From(s, Least(ix) + 1), sep)

\* str.split(): the words between runs of whitespace
RECURSIVE words(_)
words(s) ==
    LET t == lstrip(s)
        ws == {i \in 1..Len(t) : t[i] \in Whitespace}
    IN  IF t = <<>> THEN <<>>
        ELSE IF ws = {} THEN <<t>>
        ELSE <<SubSeq(t, 1, Least(ws) - 1)>> \o words(From(t, Least(ws)))

\* sep.join(parts)
RECURSIVE join(_, _)
join(parts, sep) ==
    IF parts = <<>> THEN <<>>
    ELSE IF Len(parts) = 1 THEN parts[1]
    ELSE parts[1] \o sep \o join(Tail(parts), sep)

\* A match of a regular expression: the positions of its first and last
\* character and its group 1.  first = 0: no match.
Match(first, last, group) == [first |-> first, last |-> last, group |-> group]
NoMatch == Match(0, 0, <<>>)

\* pattern.finditer(text): the leftmost matches that do not overlap, given
\* the match that starts at each position
RECURSIVE finditer(_, _)
finditer(at, pos) ==
    LET ix == {i \in pos..Len(at) : at[i] # NoMatch}
    IN  IF ix = {} THEN <<>>
        ELSE <<at[Least(ix)]>> \o finditer(at, at[Least(ix)].last + 1)

Ticks3 == <<Tick, Tick, Tick>>

\* bash_block_pattern, ```(?:bash|sh|shell)\s*\n(.*?)\n``` with DOTALL and
\* IGNORECASE, matched at position i.  The alternatives are tried in order,
\* \s* is greedy and the group is lazy: of the ways to match, the first in
\* that order is the match.
bash_block_pattern(text, i) ==
    LET n == Len(text)
        low == lower(text)
        langs == <<<<"b", "a", "s", "h">>, <<"s", "h">>, <<"s", "h", "e",
            "l", "l">>>>
        \* l: the alternative, p: the newline after \s*, e: the newline
        \* before the closing fence
        ways == {w \in (1..3) \X (1..n) \X (1..n) :
                    LET a == i + 3 + Len(langs[w[1]])
                    IN  /\ At(low, i + 3, langs[w[1]])
                        /\ w[2] >= a
                        /\ \A q \in a..(w[2] - 1) : text[q] \in Whitespace
                        /\ text[w[2]] = "\n"
                        /\ w[3] > w[2]
                        /\ text[w[3]] = "\n"
                        /\ At(text, w[3] + 1, Ticks3)}
        Prior(v, w) ==
            \/ v[1] < w[1]
            \/ v[1] = w[1] /\ v[2] > w[2]
            \/ v[1] = w[1] /\ v[2] = w[2] /\ v[3] <= w[3]
    IN  IF ~At(text, i, Ticks3) \/ ways = {} THEN NoMatch
        ELSE LET w == CHOOSE v \in ways : \A u \in ways : Prior(v, u)
             IN  Match(i, w[3] + 3, SubSeq(text, w[2] + 1, w[3] - 1))

\* backtick_pattern, `([^`]+)`, matched at position i
backtick_pattern(text, i) ==
    LET closing == {j \in (i + 2)..Len(text) : text[j] = Tick}
    IN  IF text[i] # Tick \/ closing = {} \/ text[i + 1] = Tick THEN NoMatch
        ELSE Match(i, Least(closing), SubSeq(text, i + 1, Least(closing) - 1))

\* command_prefix_pattern, (?:run|execute|try|use):\s*`?([^`\n]+)`? with
\* IGNORECASE, matched at position i.  \s* is greedy and gives characters
\* back until the group has a first character.
command_prefix_pattern(text, i) ==
    LET n == Len(text)
        low == lower(text)
        heads == {<<"r", "u", "n", ":">>, <<"e", "x", "e", "c", "u", "t",
            "e", ":">>, <<"t", "r", "y", ":">>, <<"u", "s", "e", ":">>}
        here == {h \in heads : At(low, i, h)}
        a == i + Len(CHOOSE h \in here : TRUE)
        InGroup(q) == q <= n /\ text[q] \notin {Tick, "\n"}
        \* g: the first character of the group
        Start(b) == IF b <= n /\ text[b] = Tick THEN b + 1 ELSE b
        starts == {b \in a..(n + 1) :
                      /\ \A q \in a..(b - 1) : text[q] \in Whitespace
                      /\ InGroup(Start(b))}
        g == Start(Greatest(starts))
        last == Greatest({q \in g..n : \A r \in g..q : InGroup(r)})
    IN  IF here = {} \/ starts = {} THEN NoMatch
        ELSE Match(i, IF last < n /\ text[last + 1] = Tick THEN last + 1
                      ELSE last,
                   SubSeq(text, g, last))

\* CommandOption without its explanation, which no decision reads;
\* confidence in hundredths
CommandOption(command, confidence, source) ==
    [command |-> command, confidence |-> confidence, source |-> source]

\* re.findall(r'```', text[:position]) counted, position from 0
RECURSIVE count_fences(_)
count_fences(before_text) ==
    LET ix == {i \in 1..Len(before_text) : At(before_text, i, Ticks3)}
    IN  IF ix = {} THEN 0
        ELSE 1 + count_fences(From(before_text, Least(ix) + 3))

is_inside_code_block(text, position) ==
    count_fences(SubSeq(text, 1, position)) % 2 = 1

looks_like_command(text) ==
    LET common_commands ==
            {<<"l", "s">>, <<"c", "d">>, <<"p", "w", "d">>, <<"c", "a",
                "t">>, <<"g", "r", "e", "p">>, <<"f", "i", "n", "d">>, <<"s",
                "e", "d">>,
             <<"a", "w", "k">>, <<"g", "i", "t">>, <<"d", "o", "c", "k", "e",
                 "r">>, <<"k", "u", "b", "e", "c", "t", "l">>, <<"n", "p",
                 "m">>, <<"p", "i", "p">>,
             <<"p", "y", "t", "h", "o", "n">>, <<"e", "c", "h", "o">>, <<"m",
                 "k", "d", "i", "r">>, <<"r", "m">>, <<"m", "v">>, <<"c",
                 "p">>,
             <<"c", "h", "m", "o", "d">>, <<"c", "h", "o", "w", "n">>, <<"s",
                 "u", "d", "o">>, <<"a", "p", "t">>, <<"y", "u", "m">>,
                 <<"b", "r", "e", "w">>,
             <<"c", "u", "r", "l">>, <<"w", "g", "e", "t">>, <<"s", "s",
                 "h">>, <<"p", "s">>, <<"k", "i", "l", "l">>, <<"t", "o",
                 "p">>,
             <<"d", "f">>, <<"d", "u">>, <<"t", "a", "r">>, <<"g", "z", "i",
                 "p">>}
        w == words(text)
        first_word == IF w = <<>> THEN <<>>
                      ELSE IF w[1] = <<"s", "u", "d",
                          "o">> /\ Len(w) > 1 THEN w[2]
                      ELSE w[1]
    IN  \/ first_word \in common_commands
        \/ \E i \in 1..Len(text) : text[i] \in {"|", ">"}

\* _extract_from_code_blocks lines 79-103: the line without its shell
\* prompt, or <<>> when the line is dropped
clean_line(line) ==
    LET cleaned == IF line[1] \in {"$", "#", ">"} THEN lstrip(Tail(line))
                   ELSE line
        n == Len(cleaned)
        low == lower(cleaned)
        after_total == {q \in 6..n : \A r \in 6..q : cleaned[r] \in Whitespace}
        sentence_words == {<<"o", "f">>, <<"t", "h", "e">>, <<"a", "n",
            "d">>, <<"o", "r">>, <<"i", "s">>, <<"a", "r", "e">>,
                           <<"w", "i", "l", "l">>, <<"c", "a", "n">>}
        explanation_words == {<<"e", "x", "p", "l", "a", "n", "a", "t", "i",
            "o", "n">>, <<"n", "o", "t", "e">>, <<"e", "x", "a", "m", "p",
            "l", "e">>,
                              <<"u", "s", "a", "g", "e">>, <<"d", "e", "s",
                                  "c", "r", "i", "p", "t", "i", "o", "n">>,
                                  <<"f", "i", "n", "d">>,
                              <<"x", "a", "r", "g", "s">>, <<"r", "e", "p",
                                  "l", "a", "c", "e">>}
        markers == {<<"b", "a", "s", "h">>, <<"s", "h">>, <<"s", "h", "e",
            "l", "l">>, <<"p", "y", "t", "h", "o", "n">>, <<"j", "a", "v",
            "a", "s", "c", "r", "i", "p", "t">>,
                    <<"j", "a", "v", "a">>, <<"r", "u", "b", "y">>, <<"g",
                        "o">>, <<"r", "u", "s", "t">>}
        output ==
            \/ /\ cleaned[1] = "/"                       \* ^/[\w/.-]+$
               /\ n >= 2
               /\ \A q \in 2..n :
                     IsWord(cleaned[q]) \/ cleaned[q] \in {"/", ".", "-"}
            \/ cleaned[1] \in Digits                     \* ^[0-9]
            \/ /\ At(cleaned, 1, <<"t", "o", "t", "a",
                "l">>)              \* ^total\s+\d+
               /\ \E q \in after_total :
                     q < n /\ cleaned[q + 1] \in Digits
            \/ /\ n >= 10                                \* ^[drwx-]{10}
               /\ \A q \in 1..10 : cleaned[q] \in {"d", "r", "w", "x", "-"}
            \/ /\ isupper(cleaned[1])      \* ^[A-Z][a-z]+.*(?:of|...)\b
               /\ n >= 2
               /\ islower(cleaned[2])
               /\ \E q \in 3..n, w \in sentence_words :
                     At(cleaned, q, w) /\ WordEndsBefore(cleaned, q + Len(w))
            \/ /\ islower(low[1])          \* ^[A-Z](?:explanation|...)\b
               /\ \E w \in explanation_words :
                     At(low, 2, w) /\ WordEndsBefore(cleaned, 2 + Len(w))
            \/ cleaned \in markers
    IN  IF cleaned = <<>> \/ output THEN <<>>
        ELSE IF islower(cleaned[1]) \/ cleaned[1] \in {"~", ".", "/", "-"}
        THEN cleaned
        ELSE <<>>

\* A faulty candidate of one block that keeps a script of any length.
block_command_uncapped(group) ==
    LET stripped == [i \in 1..Len(split(strip(group), "\n")) |->
                        strip(split(strip(group), "\n")[i])]
        lines_ == SelectSeq(stripped, LAMBDA line : line # <<>>)
        cleaned == [i \in 1..Len(lines_) |-> clean_line(lines_[i])]
        clean_lines == SelectSeq(cleaned, LAMBDA line : line # <<>>)
    IN  IF Len(clean_lines) = 1
        THEN <<CommandOption(clean_lines[1], 90, "code_block")>>
        ELSE IF Len(clean_lines) > 1
        THEN <<CommandOption(join(clean_lines, <<"\n">>), 85, "code_block")>>
        ELSE <<>>

\* The candidate of one fenced block, lines 70-131, as a list of at most
\* one candidate
block_command(group) ==
    LET stripped == [i \in 1..Len(split(strip(group), "\n")) |->
                        strip(split(strip(group), "\n")[i])]
        lines_ == SelectSeq(stripped, LAMBDA line : line # <<>>)
        cleaned == [i \in 1..Len(lines_) |-> clean_line(lines_[i])]
        clean_lines == SelectSeq(cleaned, LAMBDA line : line # <<>>)
    IN  IF Len(clean_lines) = 1
        THEN <<CommandOption(clean_lines[1], 90, "code_block")>>
        ELSE IF Len(clean_lines) > 1 /\ Len(clean_lines) <= 5
        THEN <<CommandOption(join(clean_lines, <<"\n">>), 85, "code_block")>>
        ELSE <<>>

RECURSIVE Flatten(_)
Flatten(lists) ==
    IF lists = <<>> THEN <<>> ELSE Head(lists) \o Flatten(Tail(lists))

extract_from_code_blocks(text) ==
    LET found == finditer([i \in 1..Len(text) |-> bash_block_pattern(text,
        i)],
                          1)
    IN  Flatten([k \in 1..Len(found) |-> block_command(found[k].group)])

extract_from_backticks(text) ==
    LET found == finditer([i \in 1..Len(text) |-> backtick_pattern(text, i)],
                          1)
    IN  Flatten([k \in 1..Len(found) |->
                    IF is_inside_code_block(text, found[k].first - 1)
                    THEN <<>>
                    ELSE IF looks_like_command(strip(found[k].group))
                    THEN <<CommandOption(strip(found[k].group), 70,
                                         "backticks")>>
                    ELSE <<>>])

extract_from_patterns(text) ==
    LET found == finditer([i \in 1..Len(text) |->
                              command_prefix_pattern(text, i)], 1)
    IN  [k \in 1..Len(found) |->
            CommandOption(strip(found[k].group), 60, "pattern")]

\* cmd.command.strip().lower()
Normalized(cmd) == lower(strip(cmd.command))

\* The loop of _deduplicate: seen holds the values of the dict in the order
\* their keys were inserted
RECURSIVE deduplicate_into(_, _)
deduplicate_into(seen, options) ==
    IF options = <<>> THEN seen
    ELSE LET cmd == Head(options)
             same == {i \in 1..Len(seen) : Normalized(seen[i]) = Normalized(cmd)}
             i == CHOOSE i \in same : TRUE
         IN  deduplicate_into(
                 IF same = {} THEN Append(seen, cmd)
                 ELSE IF cmd.confidence > seen[i].confidence
                 THEN [seen EXCEPT ![i] = cmd]
                 ELSE seen,
                 Tail(options))

\* A dict whose values are always replaced keeps the last of each key.
deduplicate_keeps_last(options) ==
    LET keep == {i \in 1..Len(options) :
                    \A j \in (i + 1)..Len(options) :
                        Normalized(options[j]) # Normalized(options[i])}
    IN  SelectSeq([i \in 1..Len(options) |->
                      IF i \in keep THEN options[i]
                      ELSE CommandOption(<<>>, 0, "")],
                  LAMBDA c : c.source # "")

deduplicate(options) == deduplicate_into(<<>>, options)

\* commands.sort(key=confidence, reverse=True): stable
RECURSIVE sort_by_confidence(_)
sort_by_confidence(options) ==
    IF options = <<>> THEN <<>>
    ELSE LET m == Greatest({options[i].confidence : i \in 1..Len(options)})
         IN  SelectSeq(options, LAMBDA c : c.confidence = m)
                 \o sort_by_confidence(
                        SelectSeq(options, LAMBDA c : c.confidence # m))

\* str.isalpha for the characters of the model: letters only, not empty
isalpha(s) ==
    s # <<>> /\ \A i \in 1..Len(s) : islower(s[i]) \/ isupper(s[i])

\* A filter that looks at the length alone.
is_likely_command_by_length(command) ==
    Len(command) >= 2 /\ Len(command) <= 500

is_likely_command(command) ==
    IF Len(command) < 2 THEN FALSE
    ELSE IF Len(command) > 500 THEN FALSE
    ELSE IF isalpha(command) /\ Len(command) > 10 THEN FALSE
    ELSE IF command[Len(command)] = "." /\ \E i \in 1..Len(command) :
                                              command[i] = " "
    THEN FALSE
    ELSE TRUE

\* Every candidate the three passes find, in the order parse collects them
RawCandidates(text) ==
    extract_from_code_blocks(text) \o extract_from_backticks(text)
        \o extract_from_patterns(text)

\* Truncation before the filter: what parse must not do.
parse_truncates_first(text, n) ==
    LET options == sort_by_confidence(deduplicate(RawCandidates(text)))
    IN  SelectSeq(SubSeq(options, 1,
                         IF n < Len(options) THEN n ELSE Len(options)),
                  LAMBDA cmd : is_likely_command(cmd.command))

\* parse, for n >= 0
parse(text, n) ==
    LET options == sort_by_confidence(deduplicate(RawCandidates(text)))
        likely == SelectSeq(options,
                            LAMBDA cmd : is_likely_command(cmd.command))
    IN  SubSeq(likely, 1, IF n < Len(likely) THEN n ELSE Len(likely))

(***************************************************************************)
(* The parser alone: parse and _is_likely_command applied to a text.       *)
(***************************************************************************)
\* A fenced block: the opening fence with its language line, a body, the
\* closing fence
FencedBlock(open,
    body) == Ticks3 \o open \o <<"\n">> \o body \o <<"\n">> \o Ticks3

Opens == {<<"b", "a", "s", "h">>, <<"s", "h">>, <<"S", "h", "e", "l", "l",
    " ", " ">>}

\* Command lines that need no cleaning beyond trimming
CleanLines == {<<"l", "s">>, <<"l", "s", " ", "|", " ", "w", "c">>, <<" ",
    "p", "w", "d", " ">>, <<"l", "s", " ", ">", " ", "o", "u", "t">>, <<"c",
    "a", "t", " ", "f">>}

\* Texts that are one fenced block of one clean command line, alone or
\* inside prose
SingleBlockTexts ==
    {before \o FencedBlock(open, line) \o after :
        before \in {<<>>, <<"H", "e", "r", "e", ":", "\n">>}, open \in Opens,
            line \in CleanLines,
        after \in {<<>>, <<"\n", "d", "o", "n", "e">>}}

\* Texts whose candidates repeat, differ in confidence, fail the filter or
\* outnumber max_options
MixedTexts ==
    { <<"h", "e", "l", "l", "o">>,
      <<"u", "s", "e", " ", Tick, "l", "s", Tick, " ", "o", "r", " ", Tick,
          "L", "S", Tick, " ", "o", "r", " ", "r", "u", "n", ":", " ", "l",
          "s">>,
      <<"r", "u", "n", ":", " ", Tick, "l", "s", Tick>>,
      <<"T", "r", "y", ":", " ", " ", "P", "w", "d", "\n", "a", "n", "d",
          " ", Tick, "p", "w", "d", Tick>>,
      <<Tick, "l", "s", Tick, "\n">> \o FencedBlock(<<"b", "a", "s", "h">>,
          <<"l", "s">>),
      FencedBlock(<<"b", "a", "s", "h">>, <<"l",
          "s">>) \o <<"\n">> \o FencedBlock(<<"s", "h">>, <<"$", " ", "l",
          "s">>),
      <<Tick, "l", "s", Tick, "\n">> \o FencedBlock(<<"b", "a", "s", "h">>,
          <<"a">>),
      <<Tick, "l", "s", Tick, " ", Tick, "p", "w", "d", Tick,
          "\n">> \o FencedBlock(<<"b", "a", "s", "h">>, <<"a", "b", "c", "d",
          "e", "f", "g", "h", "i", "j", "k", "l">>),
      <<Tick, "g", "i", "t", " ", "a", Tick, " ", Tick, "g", "i", "t", " ",
          "b", Tick, " ", Tick, "g", "i", "t", " ", "c", Tick, " ", Tick,
          "g", "i", "t", " ", "d", Tick>>,
      <<"t", "r", "y", ":", " ", "t", "h", "i", "s", "i", "s", "a", "l", "o",
          "n", "g", "s", "e", "n", "t", "e", "n", "c", "e", " ", "a", "n",
          "d", " ", Tick, "l", "s", " ", "|", " ", "x", Tick>>,
      <<"r", "u", "n", ":", " ", "l", "s", " ", "-", "l", "\n", Tick, "p",
          "w", "d", Tick, " ", "a", "n", "d", " ", Tick, "c", "d", " ", "x",
          Tick, "\n">>
          \o FencedBlock(<<"b", "a", "s", "h">>, <<"c", "a", "t", " ", "f",
              "\n", "#", " ", "e", "c", "h", "o", " ", "g", "\n", "T", "o",
              "t", "a", "l", " ", "i", "s", "\n", "/", "u", "s", "r", "/",
              "b", "i", "n">>),
      FencedBlock(<<"b", "a", "s", "h">>, <<"t", "o", "t", "a", "l", " ",
          "4", "\n", "d", "r", "w", "x", "r", "-", "x", "r", "-", "x", " ",
          "2", " ", "a", "\n", "4", " ", "b", "\n", "N", "o", "t", "e", ":",
          " ", "x", "\n", "b", "a", "s", "h">>),
      FencedBlock(<<"p", "y", "t", "h", "o", "n">>, <<"l", "s">>) }

\* Strings for _is_likely_command on both sides of each of its limits
LikelyTexts ==
    { <<"t", "h", "i", "s", " ", "i", "s", " ", "a", " ", "l", "o", "n", "g",
        " ", "s", "e", "n", "t", "e", "n", "c", "e">>, <<"t", "h", "i", "s",
        "i", "s", "a", "l", "o", "n", "g", "s", "e", "n", "t", "e", "n", "c",
        "e">>, <<"l", "s">>, <<"p", "w", "d">>,
      <<"a">>, <<>>, <<"a", "b", "c", "d", "e", "f", "g", "h", "i", "j">>,
          <<"a", "b", "c", "d", "e", "f", "g", "h", "i", "j", "k">>, <<"a",
          "b", "c", "d", "e", "f", "g", "h", "i", "j", "1">>,
      <<"R", "u", "n", " ", "i", "t", ".">>, <<"i", "t", ".">>, <<"l", "s",
          " ", ".">>, <<"l", "s", " ", "-", "l", "a">>,
      [i \in 1..500 |-> IF i % 2 = 1 THEN "x" ELSE "1"],
      [i \in 1..501 |-> IF i % 2 = 1 THEN "x" ELSE "1"] }

ParserTexts == SingleBlockTexts \cup MixedTexts \cup LikelyTexts

InitParse ==
    /\ pc = "parse"
    /\ response_text \in ParserTexts
    /\ max_options \in 0..3
    /\ command_options = <<>>
    /\ returned = Return(TRUE, "")
    /\ use_instruct = FALSE
    /\ request = [temperature |-> <<>>, max_tokens |-> <<>>]
    /\ payload = [temperature |-> <<>>, max_tokens |-> <<>>]
    /\ response = "none"
    /\ shell_cmd = <<>>
    /\ elapsed = 0
    /\ console = ""
    /\ auto_approve = Constructed.auto_approve
    /\ via = Constructed.via
    /\ tool_calls = Constructed.tool_calls
    /\ was_cancelled = Constructed.was_cancelled
    /\ conversation_history = Constructed.conversation_history
    /\ cancel_flag = Constructed.cancel_flag
    /\ stream_cancelled = Constructed.stream_cancelled
    /\ expert_mode = Constructed.expert_mode
    /\ response_mode = Constructed.response_mode
    /\ system_prompt = Constructed.system_prompt
    /\ execution_history = Constructed.execution_history
    /\ last_call = Constructed.last_call
    /\ executions = Constructed.executions
    /\ events = Constructed.events
    /\ lines = Constructed.lines
    /\ turn = Constructed.turn
    /\ turn_state = Constructed.turn_state
    /\ cancel_at = Constructed.cancel_at
    /\ truncated = Constructed.truncated
    /\ commands = Constructed.commands
    /\ late_cancel = Constructed.late_cancel
    /\ fs = [p \in Paths |-> ABSENT]

\* command_options = self.command_parser.parse(response_text, max_options)
Parse ==
    /\ pc = "parse"
    /\ pc' = "parsed"
    /\ command_options' = parse(response_text, max_options)
    /\ UNCHANGED <<auto_approve, via, response_text, tool_calls,
                   was_cancelled, sessionVars, execVars, streamVars,
                   turnVars, max_options, clientVars, shellVars>>

\* _is_likely_command(response_text)
Judge ==
    /\ pc = "parse"
    /\ pc' = "judged"
    /\ returned' = Return(is_likely_command(response_text), "")
    /\ UNCHANGED <<auto_approve, via, response_text, tool_calls,
                   was_cancelled, sessionVars, execVars, streamVars,
                   turnVars, parserVars, use_instruct, request, payload,
                   response, shellVars>>

NextParse == Parse \/ Judge

SpecParse == InitParse /\ [][NextParse]_vars

(***************************************************************************)
(* Properties of the parser                                                *)
(***************************************************************************)
\* C22: a text that holds a single fenced bash block with one clean command
\* line is parsed into exactly one candidate, of source code_block and
\* confidence 0.90, whose command is the trimmed line.
C22_SingleBlockYieldsOneCandidate ==
    (pc = "parsed" /\ max_options >= 1) =>
        \A open \in Opens, line \in CleanLines :
            (\E before \in {<<>>, <<"H", "e", "r", "e", ":", "\n">>},
                after \in {<<>>, <<"\n", "d", "o", "n", "e">>} :
                response_text = before \o FencedBlock(open, line) \o after)
            => command_options = <<CommandOption(strip(line), 90,
                "code_block")>>

\* C23: parse never returns two candidates whose trimmed, lower-cased
\* commands are equal, and of the raw candidates that normalize to the text
\* of a returned candidate none has a higher confidence than the returned
\* one, which is one of them.
C23_NoDuplicatesHighestSurvives ==
    pc = "parsed" =>
        LET raw == RawCandidates(response_text)
        IN  /\ \A i, j \in 1..Len(command_options) :
                  Normalized(command_options[i]) = Normalized(command_options[j])
                      => i = j
            /\ \A i \in 1..Len(command_options) :
                  /\ \E k \in 1..Len(raw) : raw[k] = command_options[i]
                  /\ \A k \in 1..Len(raw) :
                        Normalized(raw[k]) = Normalized(command_options[i])
                            => raw[k].confidence <= command_options[i].confidence

\* A returned candidate was found twice, with different confidences and in
\* different case.
C23_Witness ==
    /\ pc = "parsed"
    /\ \E i \in 1..Len(command_options) :
          LET raw == RawCandidates(response_text)
          IN  \E k, l \in 1..Len(raw) :
                 /\ Normalized(raw[k]) = Normalized(command_options[i])
                 /\ Normalized(raw[l]) = Normalized(command_options[i])
                 /\ raw[k].confidence < raw[l].confidence
                 /\ raw[k].command # raw[l].command

\* C24: the candidates parse returns are in order of non-increasing
\* confidence and at most max_options; all pass _is_likely_command, they
\* are as many as max_options allows of the candidates that pass it, and no
\* passing candidate left out has a higher confidence than a returned one.
C24_HighestLikelyFirst ==
    pc = "parsed" =>
        LET raw == RawCandidates(response_text)
            likely == {k \in 1..Len(raw) : is_likely_command(raw[k].command)}
            texts == {Normalized(raw[k]) : k \in likely}
            n == Len(command_options)
        IN  /\ \A i, j \in 1..n :
                  i < j => command_options[i].confidence
                              >= command_options[j].confidence
            /\ n <= max_options
            /\ n = IF Cardinality(texts) < max_options
                   THEN Cardinality(texts) ELSE max_options
            /\ \A i \in 1..n : is_likely_command(command_options[i].command)
            /\ \A k \in likely :
                  (\A i \in 1..n :
                      Normalized(command_options[i]) # Normalized(raw[k]))
                  => \A i \in 1..n :
                        command_options[i].confidence >= raw[k].confidence

\* The candidate of highest confidence failed the filter, and of those that
\* pass it one was returned and another was cut off.
C24_Witness ==
    /\ pc = "parsed"
    /\ max_options >= 1
    /\ Len(command_options) = max_options
    /\ LET raw == RawCandidates(response_text)
       IN  \E k, l \in 1..Len(raw) :
              /\ ~is_likely_command(raw[k].command)
              /\ raw[k].confidence > command_options[1].confidence
              /\ is_likely_command(raw[l].command)
              /\ \A i \in 1..Len(command_options) :
                    Normalized(command_options[i]) # Normalized(raw[l])

\* The rule of the filter, stated by itself: what a command must not be
Rejected(command) ==
    \/ Len(command) < 2
    \/ Len(command) > 500
    \/ /\ Len(command) > 10
       /\ \A i \in 1..Len(command) : islower(command[i]) \/ isupper(command[i])
    \/ /\ command # <<>>
       /\ command[Len(command)] = "."
       /\ \E i \in 1..Len(command) : command[i] = " "

\* C25 as stated: _is_likely_command rejects "this is a long sentence" and
\* accepts "ls" and "pwd"; it rejects strings shorter than 2 or longer than
\* 500 characters, alphabetic-only strings longer than 10 characters and
\* strings that end in '.' and contain a space, and accepts all others.
C25_RejectsLongSentence ==
    pc = "judged" =>
        /\ response_text = <<"t", "h", "i", "s", " ", "i", "s", " ", "a",
            " ", "l", "o", "n", "g", " ", "s", "e", "n", "t", "e", "n", "c",
            "e">> => ~returned.success
        /\ response_text \in {<<"l", "s">>, <<"p", "w",
            "d">>} => returned.success
        /\ returned.success = ~Rejected(response_text)

\* C25, amended: _is_likely_command accepts "this is a long sentence", which
\* holds blanks and so is not alphabetic-only, as it accepts "ls" and "pwd";
\* it rejects "thisisalongsentence"; the general rule is as stated.
C25_RejectsLongWord ==
    pc = "judged" =>
        /\ response_text = <<"t", "h", "i", "s", " ", "i", "s", " ", "a",
            " ", "l", "o", "n", "g", " ", "s", "e", "n", "t", "e", "n", "c",
            "e">> => returned.success
        /\ response_text = <<"t", "h", "i", "s", "i", "s", "a", "l", "o",
            "n", "g", "s", "e", "n", "t", "e", "n", "c",
            "e">> => ~returned.success
        /\ response_text \in {<<"l", "s">>, <<"p", "w",
            "d">>} => returned.success
        /\ returned.success = ~Rejected(response_text)

\* The sentence of the statement was judged, and accepted.
C25_Witness ==
    /\ pc = "judged"
    /\ response_text = <<"t", "h", "i", "s", " ", "i", "s", " ", "a", " ",
        "l", "o", "n", "g", " ", "s", "e", "n", "t", "e", "n", "c", "e">>
    /\ returned.success

(***************************************************************************)
(* The requests of LLMClientWithTools.chat_with_tools and LLMClient.chat.  *)
(* Temperatures are in hundredths.                                         *)
(***************************************************************************)
EXPERT_CONFIGS ==
    [e \in ExpertModes |->
        CASE e = "linux" ->
               [temperature |-> 40, max_tokens_quick |-> 400,
                max_tokens_full |-> 1500]
          [] e = "python" ->
               [temperature |-> 50, max_tokens_quick |-> 500,
                max_tokens_full |-> 2000]
          [] e = "devops" ->
               [temperature |-> 40, max_tokens_quick |-> 400,
                max_tokens_full |-> 1500]
          [] e = "database" ->
               [temperature |-> 40, max_tokens_quick |-> 400,
                max_tokens_full |-> 1500]
          [] OTHER ->
               [temperature |-> 70, max_tokens_quick |-> 500,
                max_tokens_full |-> 2000]]

get_expert_config(e, m) ==
    [temperature |-> EXPERT_CONFIGS[e].temperature,
     max_tokens |-> IF m = "quick" THEN EXPERT_CONFIGS[e].max_tokens_quick
                    ELSE EXPERT_CONFIGS[e].max_tokens_full]

\* config.generation
GenerationConfig == [temperature |-> 70, max_tokens |-> 2000]

\* "x or y" of Python for an optional number x: None and 0 are falsy
Or(x, y) == IF x # <<>> /\ x[1] # 0 THEN x[1] ELSE y

\* _stream_chat lines 294-300
stream_chat_payload(temperature, max_tokens) ==
    [temperature |-> <<Or(temperature, GenerationConfig.temperature)>>,
     max_tokens |-> <<Or(max_tokens, GenerationConfig.max_tokens)>>]

\* chat_with_tools lines 154-166: base_client was built with
\* use_instruct=False, so chat_stream goes to _stream_chat
chat_with_tools_payload(req, config) ==
    stream_chat_payload(
        IF req.temperature = <<>> THEN <<config.temperature>>
        ELSE req.temperature,
        IF req.max_tokens = <<>> THEN <<config.max_tokens>>
        ELSE req.max_tokens)

\* What the backend does with the request of chat: the transport fails, the
\* status is an error, or a body arrives that is no JSON, or JSON of some
\* shape
BackendResponses ==
    {"connect_error", "timeout", "status_error", "http_error", "not_json",
     "json_array", "json_no_key", "json_empty_choices", "json_ok"}

\* LLMClient.chat lines 124-166: the string returned or the exception raised
chat(instruct, resp) ==
    CASE resp = "connect_error" ->
           Return(FALSE, "Error: Cannot connect to LLM server at URL. Is the server running?")
      [] resp = "timeout" ->
           Return(FALSE, "Error: Request to LLM server timed out at URL")
      [] resp = "status_error" ->
           Return(FALSE, "Error: LLM server returned status 500: BODY")
      [] resp = "http_error" ->
           Return(FALSE, "Error communicating with LLM: ReadError - ")
      [] resp = "not_json" -> Raise("JSONDecodeError")
      [] resp = "json_array" ->
           IF instruct THEN Raise("AttributeError") ELSE Raise("TypeError")
      [] resp = "json_no_key" ->
           IF instruct THEN Return(TRUE, "")
           ELSE Return(FALSE, "Error parsing LLM response: 'choices'")
      [] resp = "json_empty_choices" ->
           IF instruct THEN Return(TRUE, "")
           ELSE Return(FALSE, "Error parsing LLM response: list index out of range")
      [] OTHER -> Return(TRUE, "content")

Overrides == [temperature : {<<>>, <<0>>, <<40>>, <<100>>},
              max_tokens : {<<>>, <<0>>, <<1>>, <<400>>}]

InitClient ==
    /\ pc = "call"
    /\ expert_mode \in ExpertModes
    /\ response_mode \in ResponseModes
    /\ request \in Overrides
    /\ use_instruct \in BOOLEAN
    /\ response \in BackendResponses
    /\ payload = [temperature |-> <<>>, max_tokens |-> <<>>]
    /\ returned = Return(TRUE, "")
    /\ command_options = <<>>
    /\ max_options = 3
    /\ shell_cmd = <<>>
    /\ elapsed = 0
    /\ console = ""
    /\ auto_approve = Constructed.auto_approve
    /\ via = Constructed.via
    /\ response_text = Constructed.response_text
    /\ tool_calls = Constructed.tool_calls
    /\ was_cancelled = Constructed.was_cancelled
    /\ conversation_history = Constructed.conversation_history
    /\ cancel_flag = Constructed.cancel_flag
    /\ stream_cancelled = Constructed.stream_cancelled
    /\ system_prompt = get_system_prompt(expert_mode, response_mode)
    /\ execution_history = Constructed.execution_history
    /\ last_call = Constructed.last_call
    /\ executions = Constructed.executions
    /\ events = Constructed.events
    /\ lines = Constructed.lines
    /\ turn = Constructed.turn
    /\ turn_state = Constructed.turn_state
    /\ cancel_at = Constructed.cancel_at
    /\ truncated = Constructed.truncated
    /\ commands = Constructed.commands
    /\ late_cancel = Constructed.late_cancel
    /\ fs = [p \in Paths |-> ABSENT]

\* chat_with_tools(temperature, max_tokens) up to the request it sends
SendStreamRequest ==
    /\ pc = "call"
    /\ pc' = "requested"
    /\ payload' = chat_with_tools_payload(
                      request, get_expert_config(expert_mode, response_mode))
    /\ UNCHANGED <<auto_approve, via, response_text, tool_calls,
                   was_cancelled, sessionVars, execVars, streamVars,
                   turnVars, parserVars, use_instruct, request, response,
                   returned, shellVars>>

\* LLMClient.chat(messages) of a client built with use_instruct
Chat ==
    /\ pc = "call"
    /\ pc' = "chatted"
    /\ returned' = chat(use_instruct, response)
    /\ UNCHANGED <<auto_approve, via, response_text, tool_calls,
                   was_cancelled, sessionVars, execVars, streamVars,
                   turnVars, parserVars, use_instruct, request, payload,
                   response, shellVars>>

NextClient == SendStreamRequest \/ Chat

SpecClient == InitClient /\ [][NextClient]_vars

(***************************************************************************)
(* Properties of the requests                                              *)
(***************************************************************************)
\* C26: the temperature and max_tokens sent for a streaming turn are the
\* caller's override, for every value of the override, and without an
\* override the defaults of the current persona and response mode.
C26_OverrideElsePersonaDefault ==
    pc = "requested" =>
        LET config == get_expert_config(expert_mode, response_mode)
        IN  /\ payload.temperature =
                  IF request.temperature # <<>> THEN request.temperature
                  ELSE <<config.temperature>>
            /\ payload.max_tokens =
                  IF request.max_tokens # <<>> THEN request.max_tokens
                  ELSE <<config.max_tokens>>

\* C27: chat raises on no backend failure; a connection failure, a timeout,
\* an error status and a malformed body each make it return a message of
\* their own.
C27_ChatReturnsMessageOnFailure ==
    pc = "chatted" =>
        LET Failure(r) ==
                CASE r \in {"not_json", "json_array", "json_no_key",
                            "json_empty_choices"} -> "malformed"
                  [] OTHER -> r
            failures == BackendResponses \ {"json_ok"}
        IN  response \in failures =>
                /\ ~returned.raised
                /\ returned.result \notin {"", "content"}
                /\ \A r \in failures :
                      Failure(r) # Failure(response)
                          => \A i \in BOOLEAN :
                                chat(i, r) # returned

\* C28: the interactive loop ends only at the prompt, on !quit, !exit, !q
\* or end of input; from streaming, from a follow-up stream and from the
\* approval of a tool call the loop goes on, whatever is interrupted or
\* fails there.
C28_LoopEndsOnlyAtPrompt ==
    [][(pc \in {"prompt", "streaming", "followup", "approval"}
          /\ pc' \notin {"prompt", "streaming", "followup", "approval"})
       => (pc = "prompt" /\ pc' = "exited")]_vars

(***************************************************************************)
(* Command suggestions: the end of a turn whose reply is a text of         *)
(* characters, and InteractiveCLI._handle_command_suggestions.             *)
(***************************************************************************)
MaxSuggestTurns == 1

\* The string of a sequence of characters
RECURSIVE Str(_)
Str(s) == IF s = <<>> THEN "" ELSE Head(s) \o Str(Tail(s))

\* Replies of the model with the invocations _extract_tool_calls finds in
\* them: prose, a shell command, a tool invocation, both
SuggestReplies ==
    LET invocation == Dict([k \in {"filepath"} |-> "f1"])
        json == FencedBlock(<<"j", "s", "o", "n">>,
                    <<"{", "\"", "t", "o", "o", "l", "\"", ":", " ", "\"",
                        "r", "e", "a", "d", "_", "f", "i", "l", "e", "\"",
                        ",", " ", "\"", "a", "r", "g", "u", "m", "e", "n",
                        "t", "s", "\"", ":", " ", "{", "\"", "f", "i", "l",
                        "e", "p", "a", "t", "h", "\"", ":", " ", "\"", "f",
                        "1", "\"", "}", "}">>)
        calls == extract_tool_calls(<<Block("read_file", invocation)>>)
    IN  { [text |-> <<"h", "e", "l", "l", "o">>, calls |-> <<>>],
          [text |-> FencedBlock(<<"b", "a", "s", "h">>, <<"l", "s">>),
              calls |-> <<>>],
          [text |-> json, calls |-> calls],
          [text |-> <<"U", "s", "e", " ", Tick, "p", "w", "d", Tick, " ",
              "f", "i", "r", "s", "t", ".", "\n">> \o json, calls |-> calls] }

\* A parse for every persona.
run_command_options_any_persona(e, text) == parse(text, 3)

\* run lines 296-298: the candidates of the reply, or none
run_command_options(e, text) ==
    IF e = "linux" THEN parse(text, 3) ELSE <<>>

\* A whole turn that is not cancelled: the input, the stream to its end,
\* and the code after it up to the menu or the first tool call
CompleteTurn(v) ==
    /\ AtPrompt
    /\ turn < MaxSuggestTurns
    /\ \E content \in UserTexts, r \in SuggestReplies :
          LET asked == add_system_message(
                           add_user_message(conversation_history, content,
                                            expert_mode, turn + 1),
                           system_prompt)
              a == IF v = "plain"
                   THEN run_after_stream(asked, r.text, r.calls, "Completed",
                                         turn + 1)
                   ELSE multiline_after_stream(asked, r.text, r.calls,
                                               "Completed", turn + 1)
              found == IF v = "plain"
                       THEN run_command_options(expert_mode, r.text)
                       ELSE <<>>
          IN  /\ conversation_history' = a.history
              /\ tool_calls' = a.tool_calls
              /\ was_cancelled' = a.was_cancelled
              /\ response_text' = r.text
              /\ command_options' = found
              /\ pc' = IF found # <<>> THEN "menu" ELSE a.pc
    /\ LET f == stream_chat_finally(turn_flags(CurrentFlags))
       IN  /\ cancel_flag' = f.cancel_flag
           /\ stream_cancelled' = f.stream_cancelled
    /\ via' = v
    /\ turn' = turn + 1
    /\ turn_state' = "Completed"
    /\ UNCHANGED <<auto_approve, expert_mode, response_mode, system_prompt,
                   execVars, streamVars, commands, late_cancel, max_options,
                   clientVars, shellVars>>

\* What is typed at "Select command [0]: " ("^C": interrupt or end of
\* input) and at "Enter command"
MenuChoices == {"", "0", "1", "4", "m", "x", "^C"}
ModifiedCommands == {"", "pwd", "^C"}

\* _handle_command_suggestions, then the rest of the iteration of run
SelectCommand ==
    /\ pc = "menu"
    /\ \E choice \in MenuChoices, modified_cmd \in ModifiedCommands,
          ans \in AnswersFor("execute_shell_command") :
         LET choice_num == CASE choice \in {"", "0"} -> 0
                             [] choice = "1" -> 1
                             [] choice = "4" -> 4
                             [] OTHER -> -1                     \* ValueError
             picked == choice_num >= 1 /\ choice_num <= Len(command_options)
             typed == choice = "m" /\ modified_cmd \notin {"", "^C"}
             arguments ==
                 Dict([k \in {"command", "explanation"} |->
                         IF k = "explanation" THEN "explanation"
                         ELSE IF picked
                         THEN Str(command_options[choice_num].command)
                         ELSE modified_cmd])
             auto == picked /\ auto_approve
             o == execute_with_approval("execute_shell_command", arguments,
                      auto, ans,
                      World(fs, execution_history, <<>>, executions))
             called == picked \/ typed
             interrupted ==
                 \/ choice = "m" /\ modified_cmd = "^C"
                 \/ called /\ o.out.raised
         IN  /\ IF called
                THEN /\ last_call' = CallRecord("execute_shell_command",
                                                arguments, auto, ans, o)
                     /\ fs' = o.w.fs
                     /\ execution_history' = o.w.log
                     /\ executions' = o.w.n
                ELSE UNCHANGED execVars
             /\ conversation_history' =
                   IF picked /\ ~o.out.raised /\ o.out.success
                   THEN add_tool_result(conversation_history,
                            "cmd_" \o choice, "execute_shell_command",
                            IF o.out.result # "" THEN o.out.result
                            ELSE "Command executed successfully", turn)
                   ELSE conversation_history
             /\ console' =
                   CASE interrupted -> "Use !quit to exit"
                     [] called -> ""
                     [] choice \in {"", "0", "^C"} ->
                          "Skipped command execution"
                     [] choice_num > Len(command_options) -> "Invalid choice"
                     [] OTHER -> "Invalid input"
             /\ tool_calls' = IF interrupted THEN <<>> ELSE tool_calls
             /\ pc' = IF interrupted \/ tool_calls = <<>> THEN "prompt"
                      ELSE "approval"
    /\ UNCHANGED <<auto_approve, via, response_text, was_cancelled,
                   cancel_flag, stream_cancelled, expert_mode, response_mode,
                   system_prompt, streamVars, turnVars, parserVars,
                   clientVars, shell_cmd, elapsed>>

NextSuggest ==
    \/ SetExpertMode
    \/ SetAutoApprove
    \/ CompleteTurn("plain")
    \/ CompleteTurn("multiline")
    \/ SelectCommand
    \/ HandleToolCall
    \/ RecvContent
    \/ RecvDone
    \/ RecvHttpError
    \/ RecvException
    \/ FollowupInterrupt

SpecSuggest == Init /\ [][NextSuggest]_vars

(***************************************************************************)
(* Properties of the command suggestions                                   *)
(***************************************************************************)
\* A step that ran a shell command
ShellCommandRan ==
    /\ Len(execution_history') = Len(execution_history) + 1
    /\ execution_history'[Len(execution_history')].type = "shell_command"

\* C29: the suggestion menu is shown only in the Linux persona; a turn that
\* ends in another persona keeps no candidate and goes on to its tool calls
\* or to the prompt; a shell command is run only from the menu (the replies
\* invoke read_file alone); and in every persona the tool calls of a reply
\* are handled, after the menu when there is one, unless the menu step was
\* interrupted.
C29_SuggestionsOnlyInLinux ==
    /\ [](pc = "menu" =>
            expert_mode = "linux" /\ via = "plain" /\ command_options # <<>>)
    /\ [][(turn' = turn + 1 /\ expert_mode # "linux") =>
             /\ command_options' = <<>>
             /\ \E r \in SuggestReplies :
                   /\ response_text' = r.text
                   /\ tool_calls' = r.calls
                   /\ pc' = IF r.calls # <<>> THEN "approval" ELSE "prompt"]_vars
    /\ [][ShellCommandRan => (pc = "menu" /\ expert_mode = "linux")]_vars
    /\ [][(pc = "menu" /\ pc' # "menu" /\ console' # "Use !quit to exit") =>
             /\ tool_calls' = tool_calls
             /\ pc' = IF tool_calls # <<>> THEN "approval" ELSE "prompt"]_vars
    /\ [][(pc = "approval" /\ pc' # "approval") =>
             /\ last_call'.tool_name = Head(tool_calls).name
             /\ last_call'.arguments = Head(tool_calls).arguments]_vars

\* Outside the Linux persona a reply that holds a shell command and a tool
\* invocation was received: no menu was shown, nothing was run from the
\* reply's commands, and its tool call was handled.
C29_Witness ==
    /\ expert_mode \notin {"linux"}
    /\ via = "plain"
    /\ RawCandidates(response_text) # <<>>
    /\ command_options = <<>>
    /\ execution_history = <<>>
    /\ last_call.tool_name = "read_file"
    /\ last_call.out = Return(FALSE, "Skipped by user")

(***************************************************************************)
(* Direct shell commands: the last branch of _handle_special_command,      *)
(* interactive_terminal.py lines 488-514.                                  *)
(***************************************************************************)
\* timeout=30 of subprocess.run, in seconds
TimeoutSeconds == 30

startswith(s, prefix) == At(s, 1, prefix)

\* The branches of _handle_special_command before the last one
is_special_command(command) ==
    LET cmd_lower == strip(lower(command))
    IN  \/ cmd_lower \in {<<"!", "q", "u", "i", "t">>,
                          <<"!", "e", "x", "i", "t">>, <<"!", "q">>}
        \/ cmd_lower = <<"!", "c", "l", "e", "a", "r">>
        \/ cmd_lower = <<"!", "s", "t", "a", "t", "u", "s">>
        \/ startswith(cmd_lower, <<"!", "m", "o", "d", "e">>)
        \/ startswith(cmd_lower, <<"!", "e", "x", "p", "e", "r", "t">>)
        \/ startswith(cmd_lower, <<"!", "a", "u", "t", "o", "-", "a", "p",
            "p", "r", "o", "v", "e">>)
        \/ cmd_lower = <<"!", "h", "e", "l", "p">>
        \/ cmd_lower = <<"!", "m", "u", "l", "t", "i", "l", "i", "n", "e">>

\* command[1:].strip()
direct_shell_cmd(command) == strip(Tail(command))

\* Lines the user can type that start with "!"
BangInputs ==
    {<<"!">>, <<"!", " ">>, <<"!", "l", "s">>, <<"!", " ", "p", "w", "d",
        " ">>, <<"!", "s", "l", "e", "e", "p", " ", "6", "0">>, <<"!", "Q",
        "u", "i", "t", " ", "n", "o", "w">>,
     <<"!", "q">>, <<"!", "C", "L", "E", "A", "R">>, <<"!", "m", "o", "d",
         "e", "l", "i", "n", "e">>}

\* What a child process that ended left on its pipes
CompletedProcesses ==
    [stdout : {"", "out"}, stderr : {"", "err"}]

\* Exceptions subprocess.run raises other than TimeoutExpired
SubprocessErrors == {"OSError", "UnicodeDecodeError"}

\* The last line printed for a child that ended
print_result(cmd, result) ==
    IF result.stderr # "" THEN "[red]" \o result.stderr
    ELSE IF result.stdout # "" THEN result.stdout
    ELSE "$ " \o Str(cmd)

\* except subprocess.TimeoutExpired / except Exception
direct_command_uncaught(raised) ==
    IF raised = "TimeoutExpired"
    THEN [pc |-> "prompt", console |-> "Command timed out (30s limit)"]
    ELSE [pc |-> "crashed", console |-> "Traceback"]

direct_command_except(raised) ==
    IF raised = "TimeoutExpired"
    THEN [pc |-> "prompt", console |-> "Command timed out (30s limit)"]
    ELSE [pc |-> "prompt", console |-> "Error: " \o raised]

\* A "!" line that is no special command: lines 490-493 and 512-514
DirectCommand ==
    /\ AtPrompt
    /\ \E command \in BangInputs :
          /\ ~is_special_command(command)
          /\ shell_cmd' = direct_shell_cmd(command)
          /\ elapsed' = 0
          /\ IF direct_shell_cmd(command) # <<>>
             THEN /\ console' = "$ " \o Str(direct_shell_cmd(command))
                  /\ pc' = "direct_shell"
             ELSE /\ console' = "Empty command"
                  /\ pc' = "prompt"
    /\ UNCHANGED <<auto_approve, via, response_text, tool_calls,
                   was_cancelled, sessionVars, execVars, streamVars,
                   turnVars, parserVars, clientVars>>

InDirectShell == pc = "direct_shell"

\* One more second passes while subprocess.run waits for the child
SubprocessWait ==
    /\ InDirectShell
    /\ elapsed < TimeoutSeconds
    /\ elapsed' = elapsed + 1
    /\ UNCHANGED <<pc, auto_approve, via, response_text, tool_calls,
                   was_cancelled, shell_cmd, console>>
    /\ UNCHANGED <<sessionVars, execVars, streamVars, turnVars, parserVars,
                   clientVars>>

\* The child ends within the limit: lines 503-506
SubprocessCompleted ==
    /\ InDirectShell
    /\ elapsed < TimeoutSeconds
    /\ \E result \in CompletedProcesses :
          console' = print_result(shell_cmd, result)
    /\ pc' = "prompt"
    /\ UNCHANGED <<auto_approve, via, response_text, tool_calls,
                   was_cancelled, shell_cmd, elapsed>>
    /\ UNCHANGED <<sessionVars, execVars, streamVars, turnVars, parserVars,
                   clientVars>>

\* subprocess.run raises within the limit: lines 509-510
SubprocessRaised ==
    /\ InDirectShell
    /\ elapsed < TimeoutSeconds
    /\ \E e \in SubprocessErrors :
          /\ console' = direct_command_except(e).console
          /\ pc' = direct_command_except(e).pc
    /\ UNCHANGED <<auto_approve, via, response_text, tool_calls,
                   was_cancelled, shell_cmd, elapsed>>
    /\ UNCHANGED <<sessionVars, execVars, streamVars, turnVars, parserVars,
                   clientVars>>

\* The limit expires, subprocess.run kills the child: lines 507-508
SubprocessTimeoutExpired ==
    /\ InDirectShell
    /\ elapsed = TimeoutSeconds
    /\ console' = direct_command_except("TimeoutExpired").console
    /\ pc' = direct_command_except("TimeoutExpired").pc
    /\ UNCHANGED <<auto_approve, via, response_text, tool_calls,
                   was_cancelled, shell_cmd, elapsed>>
    /\ UNCHANGED <<sessionVars, execVars, streamVars, turnVars, parserVars,
                   clientVars>>

\* Ctrl+C while the child runs: the handler of run, lines 308-312
DirectInterrupt ==
    /\ InDirectShell
    /\ console' = "Use !quit to exit"
    /\ pc' = "prompt"
    /\ UNCHANGED <<auto_approve, via, response_text, tool_calls,
                   was_cancelled, shell_cmd, elapsed>>
    /\ UNCHANGED <<sessionVars, execVars, streamVars, turnVars, parserVars,
                   clientVars>>

NextShell ==
    \/ DirectCommand
    \/ SubprocessWait
    \/ SubprocessCompleted
    \/ SubprocessRaised
    \/ SubprocessTimeoutExpired
    \/ DirectInterrupt

\* The clock advances and the limit of subprocess.run fires when it is due
SpecShell ==
    /\ Init
    /\ [][NextShell]_vars
    /\ WF_vars(SubprocessWait)
    /\ WF_vars(SubprocessTimeoutExpired)

ReportedOutcomes ==
    {print_result(shell_cmd, result) : result \in CompletedProcesses}
        \cup {"Error: " \o e : e \in SubprocessErrors}

HasToolCallEvent == \E i \in DOMAIN events : events[i] = "tool_call"

\* C31: in the events of one chat_with_tools call every text event comes
\* before every tool_call event, and tool_call events are never yielded
\* for a reply that a cancellation cut short, that is, for a stream that
\* dropped a content line it had received.
C31_ToolCallsOnlyFromFullText ==
    /\ \A i, j \in DOMAIN events :
          (i < j /\ events[i] = "tool_call") => events[j] # "text"
    /\ HasToolCallEvent => ~truncated

(***************************************************************************)
(* The messages _handle_tool_calls appends.                                *)
(***************************************************************************)
\* A step of _handle_tool_calls in which execute_with_approval returned
InvocationHandled ==
    /\ pc = "approval"
    /\ pc' \in {"approval", "prompt", "followup"}
    /\ tool_calls' # tool_calls
    /\ ~last_call'.out.raised

HasAssistantMessageOf(history, n) ==
    \E i \in MessagesOf(history, n) : history[i].role = "assistant"

\* C32: each invocation of a completed turn, taken in decode order, appends
\* exactly one tool message with its id and its tool name, whether it
\* succeeded, failed or was skipped; that message comes after the assistant
\* message of the turn; a follow-up reply is requested only after a
\* successful invocation, and an assistant message is appended while the
\* invocations are handled only by such a follow-up, one per follow-up.
C32_OneToolMessagePerInvocation ==
    /\ [][InvocationHandled =>
            /\ conversation_history' =
                  Append(conversation_history,
                         conversation_history'[Len(conversation_history')])
            /\ LET m == conversation_history'[Len(conversation_history')]
               IN  /\ m.role = "tool"
                   /\ m.tool_call_id = Head(tool_calls).id
                   /\ m.name = Head(tool_calls).name
                   /\ m.turn = turn
            /\ tool_calls' = Tail(tool_calls)
            /\ HasAssistantMessageOf(conversation_history, turn)
            /\ (pc' = "followup") <=> last_call'.out.success]_vars
    /\ [][(/\ pc \in {"approval", "followup"}
            /\ Len(conversation_history') > Len(conversation_history)
            /\ conversation_history'[Len(conversation_history')].role =
                  "assistant") =>
            /\ pc = "followup"
            /\ last_call.out.success
            /\ conversation_history' =
                  Append(conversation_history,
                         conversation_history'[Len(conversation_history')])
          ]_vars

(***************************************************************************)
(* The passes of CommandParser driven alone: _extract_from_code_blocks and *)
(* _extract_from_backticks applied to texts built around one fenced block. *)
(***************************************************************************)
MaxBlockLines == 6

\* The i-th command line of a block
Cmd(i) ==
    IF i = 1 THEN <<"l", "s", " ", "|", " ", "w", "c">> ELSE <<"c", "d", " ",
        "d">> \o <<ToString(i)>>

\* Lines of a block that cleaning drops
Junk(i) ==
    CASE i % 6 = 1 -> <<"t", "o", "t", "a", "l", " ", "4">>
      [] i % 6 = 2 -> <<"N", "o", "t", "e", ":", " ", "x">>
      [] i % 6 = 3 -> <<"/", "u", "s", "r", "/", "b", "i", "n">>
      [] i % 6 = 4 -> <<"4", " ", "b">>
      [] i % 6 = 5 -> <<"b", "a", "s", "h">>
      [] OTHER -> <<"d", "r", "w", "x", "r", "-", "x", "r", "-", "x", " ",
          "2", " ", "a">>

BlockStyles == {"plain", "prompt", "output", "blank"}

\* The body of a block with k command lines
RECURSIVE BlockBody(_, _)
BlockBody(k, style) ==
    IF k = 0
    THEN IF style = "output" THEN Junk(6) ELSE <<>>
    ELSE LET line == CASE style = "plain" -> Cmd(k)
                       [] style = "prompt" -> <<"$", " ">> \o Cmd(k)
                       [] style = "output" -> Cmd(k) \o <<"\n">> \o Junk(k)
                       [] OTHER -> <<" ", " ">> \o Cmd(k) \o <<" ", "\n">>
             rest == BlockBody(k - 1, style)
         IN  IF k = 1 /\ style # "output" THEN line
             ELSE rest \o <<"\n">> \o line

\* The command lines of BlockBody(k, style), in the order of the body
CmdsOf(k) == [i \in 1..k |-> Cmd(i)]

Prose == {<<>>, <<"H", "e", "r", "e", ":", "\n">>}

BlockText(before, open, k, style, after) ==
    before \o FencedBlock(open, BlockBody(k, style)) \o after

BlockTexts ==
    {BlockText(before, open, k, style, <<>>) :
        before \in Prose, open \in Opens, k \in 0..MaxBlockLines,
        style \in BlockStyles}

\* Inline spans outside any block, and a span between two blocks
SpanTexts ==
    { <<"u", "s", "e", " ", Tick, "l", "s", Tick, " ", "n", "o", "w">>,
      <<Tick, "p", "w", "d", Tick, "\n">> \o FencedBlock(<<"b", "a", "s",
          "h">>, <<"l", "s">>),
      FencedBlock(<<"b", "a", "s", "h">>, <<"l", "s">>) \o <<"\n", "t", "h",
          "e", "n", " ", Tick, "p", "w", "d", Tick>>,
      FencedBlock(<<"b", "a", "s", "h">>, <<"e", "c", "h", "o", " ", Tick,
          "l", "s", Tick>>),
      FencedBlock(<<"p", "y", "t", "h", "o", "n">>, <<"x", " ", "=", " ",
          Tick, "l", "s", Tick>>) }

InitExtract ==
    /\ pc = "extract"
    /\ response_text \in BlockTexts \cup SpanTexts
    /\ max_options = 3
    /\ command_options = <<>>
    /\ returned = Return(TRUE, "")
    /\ use_instruct = FALSE
    /\ request = [temperature |-> <<>>, max_tokens |-> <<>>]
    /\ payload = [temperature |-> <<>>, max_tokens |-> <<>>]
    /\ response = "none"
    /\ shell_cmd = <<>>
    /\ elapsed = 0
    /\ console = ""
    /\ auto_approve = Constructed.auto_approve
    /\ via = Constructed.via
    /\ tool_calls = Constructed.tool_calls
    /\ was_cancelled = Constructed.was_cancelled
    /\ conversation_history = Constructed.conversation_history
    /\ cancel_flag = Constructed.cancel_flag
    /\ stream_cancelled = Constructed.stream_cancelled
    /\ expert_mode = Constructed.expert_mode
    /\ response_mode = Constructed.response_mode
    /\ system_prompt = Constructed.system_prompt
    /\ execution_history = Constructed.execution_history
    /\ last_call = Constructed.last_call
    /\ executions = Constructed.executions
    /\ events = Constructed.events
    /\ lines = Constructed.lines
    /\ turn = Constructed.turn
    /\ turn_state = Constructed.turn_state
    /\ cancel_at = Constructed.cancel_at
    /\ truncated = Constructed.truncated
    /\ commands = Constructed.commands
    /\ late_cancel = Constructed.late_cancel
    /\ fs = [p \in Paths |-> ABSENT]

\* commands.extend(self._extract_from_code_blocks(text)), parse line 47
ExtractFromCodeBlocks ==
    /\ pc = "extract"
    /\ pc' = "code_blocks"
    /\ command_options' = extract_from_code_blocks(response_text)
    /\ UNCHANGED <<auto_approve, via, response_text, tool_calls,
                   was_cancelled, sessionVars, execVars, streamVars,
                   turnVars, max_options, clientVars, shellVars>>

\* commands.extend(self._extract_from_backticks(text)), parse line 50
ExtractFromBackticks ==
    /\ pc = "extract"
    /\ pc' = "backticks"
    /\ command_options' = extract_from_backticks(response_text)
    /\ UNCHANGED <<auto_approve, via, response_text, tool_calls,
                   was_cancelled, sessionVars, execVars, streamVars,
                   turnVars, max_options, clientVars, shellVars>>

NextExtract == ExtractFromCodeBlocks \/ ExtractFromBackticks

SpecExtract == InitExtract /\ [][NextExtract]_vars

\* What the claim expects of a block with k surviving lines
ExpectedOfBlock(k) ==
    CASE k = 0 -> <<>>
      [] k = 1 -> <<CommandOption(Cmd(1), 90, "code_block")>>
      [] k >= 2 /\ k <= 5 ->
            <<CommandOption(join(CmdsOf(k), <<"\n">>), 85, "code_block")>>
      [] OTHER -> <<>>

\* C33: a fenced shell block yields candidates by the number of its lines
\* that survive cleaning: none for 0 lines, one candidate of confidence 0.90
\* for 1 line, one candidate of confidence 0.85 whose text is the surviving
\* lines joined by newlines for 2 to 5 lines, none for more than 5 lines.
C33_BlockCandidatesByLineCount ==
    pc = "code_blocks" =>
        \A before \in Prose, open \in Opens, k \in 0..MaxBlockLines,
           style \in BlockStyles :
            response_text = BlockText(before, open, k, style, <<>>)
                => command_options = ExpectedOfBlock(k)

\* A block of five commands, each followed by a line of output
C33_Witness ==
    /\ pc = "code_blocks"
    /\ response_text = BlockText(<<>>, <<"b", "a", "s", "h">>, 5, "output",
        <<>>)
    /\ Len(command_options) = 1
    /\ command_options[1].confidence = 85
    /\ command_options[1].command = join(CmdsOf(5), <<"\n">>)

\* C34: the backtick pass yields no candidate from a text that is one
\* fenced block, alone or after prose without backticks: neither the body
\* of the block nor its fence markers give a backtick candidate.
C34_NoBacktickCandidateFromBlock ==
    (pc = "backticks" /\ response_text \in BlockTexts) =>
        command_options = <<>>

(***************************************************************************)
(* LLMClient.chat_stream line by line: _stream_generate (native format)    *)
(* and _stream_chat (OpenAI format), llm_client.py lines 253-274 and       *)
(* 307-331.  A line of the backend is                                      *)
(*   data_prefix  it starts with "data: "                                  *)
(*   parse        what is behind the prefix: "blank", "done_marker"        *)
(*                ([DONE], possibly between blanks), "invalid" (no JSON)   *)
(*                or "object"                                              *)
(*   response     the value of the "response" key of the object, <<>> when *)
(*                the key is absent                                        *)
(*   done         the value of its "done" key, FALSE when absent           *)
(*   choices      "absent", "empty", or "delta" when choices[0] has a      *)
(*                delta                                                    *)
(*   content      the content of that delta, <<>> when the key is absent   *)
(***************************************************************************)
MaxStreamLines == 3

StreamLineOf(data_prefix, parsed, resp, done, choices, content) ==
    [data_prefix |-> data_prefix, parse |-> parsed, response |-> resp,
     done |-> done, choices |-> choices, content |-> content]

NativeObject(resp, done) ==
    StreamLineOf(FALSE, "object", resp, done, "absent", <<>>)

OpenAIObject(choices, content) ==
    StreamLineOf(TRUE, "object", <<>>, FALSE, choices, content)

\* What an Ollama backend sends, and one line in the other format
NativeLines ==
    { NativeObject(<<"a">>, FALSE), NativeObject(<<"b">>, FALSE),
      NativeObject(<<"c">>, TRUE), NativeObject(<<>>, TRUE),
      NativeObject(<<"">>, FALSE),
      StreamLineOf(FALSE, "invalid", <<>>, FALSE, "absent", <<>>),
      StreamLineOf(FALSE, "blank", <<>>, FALSE, "absent", <<>>),
      OpenAIObject("delta", <<"a">>) }

\* What an OpenAI-compatible backend sends, and one line in the other
\* format
OpenAILines ==
    { OpenAIObject("delta", <<"a">>), OpenAIObject("delta", <<"b">>),
      OpenAIObject("delta", <<"">>), OpenAIObject("delta", <<>>),
      OpenAIObject("empty", <<>>), OpenAIObject("absent", <<>>),
      StreamLineOf(TRUE, "done_marker", <<>>, FALSE, "absent", <<>>),
      StreamLineOf(TRUE, "invalid", <<>>, FALSE, "absent", <<>>),
      StreamLineOf(FALSE, "blank", <<>>, FALSE, "absent", <<>>),
      NativeObject(<<"c">>, TRUE) }

Yielded(chunks, ended) == [yielded |-> chunks, ended |-> ended]

\* A faulty _stream_generate that tests "done" before it yields.
stream_generate_done_first(line) ==
    IF line.data_prefix \/ line.parse # "object"
    THEN Yielded(<<>>, FALSE)
    ELSE IF line.done THEN Yielded(<<>>, TRUE)
    ELSE Yielded(line.response, FALSE)

\* _stream_generate lines 262-274: the body of the loop for one line
stream_generate_body(line) ==
    IF ~line.data_prefix /\ line.parse = "blank"        \* line.strip()
    THEN Yielded(<<>>, FALSE)
    ELSE IF line.data_prefix \/ line.parse # "object"   \* JSONDecodeError
    THEN Yielded(<<>>, FALSE)
    ELSE Yielded(line.response, line.done)

\* _stream_chat lines 316-331: the body of the loop for one line
stream_chat_body(line) ==
    IF ~line.data_prefix                          \* startswith("data: ")
    THEN Yielded(<<>>, FALSE)
    ELSE IF line.parse = "done_marker"
    THEN Yielded(<<>>, TRUE)
    ELSE IF line.parse # "object"                       \* JSONDecodeError
    THEN Yielded(<<>>, FALSE)
    ELSE IF line.choices = "delta" /\ line.content \notin {<<>>, <<"">>}
    THEN Yielded(line.content, FALSE)
    ELSE Yielded(<<>>, FALSE)

\* chat_stream lines 178-187
chat_stream_body(instruct, line) ==
    IF instruct THEN stream_generate_body(line) ELSE stream_chat_body(line)

RECURSIVE SeqsUpTo(_, _)
SeqsUpTo(S, n) ==
    IF n = 0 THEN {<<>>}
    ELSE LET shorter == SeqsUpTo(S, n - 1)
         IN  shorter \cup {Append(s, x) : s \in shorter, x \in S}

InitStream ==
    /\ pc = "chat_stream"
    /\ use_instruct \in BOOLEAN
    /\ response \in SeqsUpTo(IF use_instruct THEN NativeLines
                             ELSE OpenAILines, MaxStreamLines)
    /\ lines = 0
    /\ response_text = <<>>
    /\ returned = Return(TRUE, "")
    /\ max_options = 3
    /\ command_options = <<>>
    /\ request = [temperature |-> <<>>, max_tokens |-> <<>>]
    /\ payload = [temperature |-> <<>>, max_tokens |-> <<>>]
    /\ shell_cmd = <<>>
    /\ elapsed = 0
    /\ console = ""
    /\ auto_approve = Constructed.auto_approve
    /\ via = Constructed.via
    /\ tool_calls = Constructed.tool_calls
    /\ was_cancelled = Constructed.was_cancelled
    /\ conversation_history = Constructed.conversation_history
    /\ cancel_flag = Constructed.cancel_flag
    /\ stream_cancelled = Constructed.stream_cancelled
    /\ expert_mode = Constructed.expert_mode
    /\ response_mode = Constructed.response_mode
    /\ system_prompt = Constructed.system_prompt
    /\ execution_history = Constructed.execution_history
    /\ last_call = Constructed.last_call
    /\ executions = Constructed.executions
    /\ events = Constructed.events
    /\ turn = Constructed.turn
    /\ turn_state = Constructed.turn_state
    /\ cancel_at = Constructed.cancel_at
    /\ truncated = Constructed.truncated
    /\ commands = Constructed.commands
    /\ late_cancel = Constructed.late_cancel
    /\ fs = [p \in Paths |-> ABSENT]

StreamFrame ==
    UNCHANGED <<auto_approve, via, tool_calls, was_cancelled, sessionVars,
                execVars, events, cancel_at, truncated, turnVars,
                parserVars, use_instruct, request, payload, response,
                returned, shellVars>>

\* One line of response.aiter_lines() reaches the loop
StreamLine ==
    /\ pc = "chat_stream"
    /\ lines < Len(response)
    /\ LET r == chat_stream_body(use_instruct, response[lines + 1])
       IN  /\ response_text' = response_text \o r.yielded
           /\ pc' = IF r.ended THEN "stream_ended" ELSE pc
    /\ lines' = lines + 1
    /\ StreamFrame

\* The backend closes the response: the loop ends
StreamExhausted ==
    /\ pc = "chat_stream"
    /\ lines = Len(response)
    /\ pc' = "stream_ended"
    /\ UNCHANGED <<lines, response_text>>
    /\ StreamFrame

NextStream == StreamLine \/ StreamExhausted

SpecStream == InitStream /\ [][NextStream]_vars

\* The terminator of each format
IsTerminator(instruct, line) ==
    IF instruct
    THEN ~line.data_prefix /\ line.parse = "object" /\ line.done
    ELSE line.data_prefix /\ line.parse = "done_marker"

\* The fragment a line carries: the response of a native object, the
\* non-empty delta content of an OpenAI object
FragmentOf(instruct, line) ==
    IF instruct
    THEN IF ~line.data_prefix /\ line.parse = "object" THEN line.response
         ELSE <<>>
    ELSE IF /\ line.data_prefix
            /\ line.parse = "object"
            /\ line.choices = "delta"
            /\ line.content # <<"">>
         THEN line.content
         ELSE <<>>

\* The fragments of the lines up to the first terminator, in arrival order
FragmentsUpToTerminator(instruct, sent) ==
    LET terminators == {i \in 1..Len(sent) : IsTerminator(instruct, sent[i])}
        last == IF terminators = {} THEN Len(sent)
                ELSE CHOOSE i \in terminators :
                         \A j \in terminators : i <= j
    IN  Flatten([i \in 1..last |-> FragmentOf(instruct, sent[i])])

C36_TransportErrorBecomesText ==
    [][(RecvHttpError /\ pc = "streaming") =>
          /\ pc' \in {"prompt", "approval"}
          /\ IF stream_cancelled
             THEN response_text' = response_text
             ELSE /\ response_text' = Append(response_text, ErrorFragment)
                  /\ turn_state' = "Completed"
                  /\ LET last == conversation_history'[
                                     Len(conversation_history')]
                     IN  /\ last.role = "assistant"
                         /\ last.turn = turn
                         /\ last.content = response_text']_vars

(***************************************************************************)
(* The modify branch of execute_with_approval driven alone: one proposed   *)
(* invocation, auto-approve off, the user chooses modify.                  *)
(***************************************************************************)
ProposedCalls ==
    UNION {{<<[name |-> tool_name, arguments |-> arguments,
               id |-> CallId(0)]>> :
               arguments \in ArgumentsFor(tool_name)} :
           tool_name \in ToolNames}

InitModify ==
    /\ pc = "approval"
    /\ tool_calls \in ProposedCalls
    /\ auto_approve = FALSE
    /\ InitSide
    /\ via = Constructed.via
    /\ response_text = Constructed.response_text
    /\ was_cancelled = Constructed.was_cancelled
    /\ conversation_history = Constructed.conversation_history
    /\ cancel_flag = Constructed.cancel_flag
    /\ stream_cancelled = Constructed.stream_cancelled
    /\ expert_mode = Constructed.expert_mode
    /\ response_mode = Constructed.response_mode
    /\ system_prompt = Constructed.system_prompt
    /\ execution_history = Constructed.execution_history
    /\ last_call = Constructed.last_call
    /\ executions = Constructed.executions
    /\ events = Constructed.events
    /\ lines = Constructed.lines
    /\ turn = Constructed.turn
    /\ turn_state = Constructed.turn_state
    /\ cancel_at = Constructed.cancel_at
    /\ truncated = Constructed.truncated
    /\ commands = Constructed.commands
    /\ late_cancel = Constructed.late_cancel
    /\ fs = [p \in Paths |->
               CASE p = "f1" -> "c1" [] p = "f2" -> ABSENT [] OTHER -> ISDIR]

\* A faulty _modify_arguments that works on the mapping it was given.
caller_arguments_aliased(tool_name, arguments, reply) ==
    IF modify_arguments(tool_name, arguments, reply).raised
    THEN arguments
    ELSE modify_arguments(tool_name, arguments, reply).result

\* The mapping of the caller after _modify_arguments: new_args is a copy
\* (line 214) and every assignment goes to the copy
caller_arguments(tool_name, arguments, reply) == arguments

\* execute_with_approval with the answer modify.  returned keeps what
\* _modify_arguments gave back, tool_calls the mapping the caller holds.
ModifyCall ==
    /\ pc = "approval"
    /\ \E ans \in AnswersFor(Head(tool_calls).name) :
         /\ ans.choice \in {"m", "modify"}
         /\ LET call == Head(tool_calls)
                w == World(fs, execution_history, <<>>, executions)
                o == execute_with_approval(call.name, call.arguments,
                                           auto_approve, ans, w)
                shown == format_tool_display(call.name, call.arguments)
            IN  /\ returned' = IF shown.raised THEN shown
                               ELSE modify_arguments(call.name,
                                                     call.arguments,
                                                     ans.reply)
                /\ tool_calls' =
                      <<[call EXCEPT !.arguments =
                            IF shown.raised THEN call.arguments
                            ELSE caller_arguments(call.name, call.arguments,
                                                  ans.reply)]>>
                /\ last_call' = CallRecord(call.name, call.arguments,
                                           auto_approve, ans, o)
                /\ fs' = o.w.fs
                /\ execution_history' = o.w.log
                /\ executions' = o.w.n
    /\ pc' = "modified"
    /\ UNCHANGED <<auto_approve, via, response_text, was_cancelled,
                   sessionVars, streamVars, turnVars, parserVars,
                   use_instruct, request, payload, response, shellVars>>

NextModify == ModifyCall

SpecModify == InitModify /\ [][NextModify]_vars

\* C37: choosing modify replaces the primary argument only (the command of
\* execute_shell_command, the file path of read_file and write_file): the
\* arguments given to the tool keep every other key with its value, the
\* content of write_file included, an empty replacement keeps the
\* arguments as they were, the tool acts on the primary argument of the
\* modified arguments, and the mapping of the caller is not changed.
C37_ModifyReplacesPrimaryOnly ==
    [][(pc = "approval" /\ pc' = "modified") =>
          LET call == Head(tool_calls)
              key == PrimaryKey(call.name)
              reply == last_call'.reply
              passed == returned'.result
          IN  /\ tool_calls'[1].arguments = call.arguments
              /\ ~returned'.raised =>
                   /\ passed.type = call.arguments.type
                   /\ DOMAIN passed.map \subseteq
                         DOMAIN call.arguments.map \cup {key}
                   /\ \A k \in DOMAIN call.arguments.map \ {key} :
                         /\ k \in DOMAIN passed.map
                         /\ passed.map[k] = call.arguments.map[k]
                   /\ reply = "" => passed = call.arguments
                   /\ (reply # "" /\ call.name \in KnownTools) =>
                         Get(passed, key, "") = reply
                   /\ \A i \in DOMAIN last_call'.acted :
                         last_call'.acted[i].target = Get(passed, key, "")
                   /\ (call.name = "write_file" /\ last_call'.out.success) =>
                         fs'[Get(passed, "filepath", "")] =
                            Get(call.arguments, "content", "")]_vars

\* write_file to f1 was proposed, the user typed f2 at the modify prompt:
\* f2 was created with the proposed content and f1 is as it was
C37_Witness ==
    /\ pc = "modified"
    /\ last_call.tool_name = "write_file"
    /\ last_call.reply = "f2"
    /\ Get(last_call.arguments, "filepath", "") = "f1"
    /\ Get(tool_calls[1].arguments, "filepath", "") = "f1"
    /\ Get(returned.result, "filepath", "") = "f2"
    /\ Get(returned.result, "content", "") = "c2"
    /\ last_call.out = Return(TRUE, "Created f2")
    /\ fs["f2"] = "c2"
    /\ fs["f1"] = "c1"

\* C38: the overwrite question of write_file is asked whenever the target
\* exists, with auto-approve on as well: a path that exists keeps its
\* content in every call whose overwrite question was not answered yes,
\* and a write_file run under auto-approve on an existing path without
\* that answer returns (False, "User cancelled overwrite").
C38_OverwriteNeedsConfirmEvenAutoApproved ==
    [][/\ \A p \in Paths :
            (Exists(fs, p) /\ fs'[p] # fs[p]) =>
               /\ last_call'.tool_name = "write_file"
               /\ last_call'.confirm
               /\ Get(last_call'.arguments, "filepath", "") = p
                     \/ last_call'.reply = p
       /\ (/\ Dispatched("write_file")
           /\ last_call'.auto_approve
           /\ Get(last_call'.arguments, "filepath", "") # NONSTR
           /\ Exists(fs, Get(last_call'.arguments, "filepath", ""))
           /\ ~last_call'.confirm)
             => /\ last_call'.choice = "none"
                /\ last_call'.out = Return(FALSE, "User cancelled overwrite")
                /\ fs' = fs]_vars

\* With auto-approve on, no Action prompt was shown for a write_file of new
\* content to the existing file f1; the overwrite question was answered no
\* and f1 holds what it held.
C38_Witness ==
    /\ last_call.tool_name = "write_file"
    /\ last_call.auto_approve
    /\ last_call.choice = "none"
    /\ Get(last_call.arguments, "filepath", "") = "f1"
    /\ Get(last_call.arguments, "content", "") = "c2"
    /\ ~last_call.confirm
    /\ last_call.out = Return(FALSE, "User cancelled overwrite")
    /\ last_call.acted = <<>>
    /\ executions >= 1
    /\ fs["f1"] = "c1"

(***************************************************************************)
(* The loop of run with a user who answers every prompt and a backend      *)
(* whose streams end: _handle_command_suggestions and _handle_tool_calls   *)
(* await the answer and the end of the follow-up stream and do nothing     *)
(* else in between.                                                        *)
(***************************************************************************)
Handling == pc \in {"approval", "followup"}

InvocationsDecoded(evs) ==
    Cardinality({i \in DOMAIN evs : evs[i] = "tool_call"})

SpecHandle ==
    /\ Init
    /\ [][NextSuggest]_vars
    /\ WF_vars(SelectCommand)
    /\ WF_vars(HandleToolCall)
    /\ WF_vars(RecvDone)

\* A follow-up stream runs no tool and adds nothing to the invocations
\* still to handle, whatever it decodes.
FollowupCallsIgnored ==
    [][pc = "followup" =>
         /\ executions' <= executions
         /\ pc' \in {"followup", "approval", "prompt"} =>
               /\ executions' = executions
               /\ last_call' = last_call
               /\ fs' = fs
         /\ tool_calls' \in {tool_calls, <<>>}
         /\ pc' = "approval" => tool_calls' = tool_calls]_vars

====
